---- MODULE Spec2Model ----
(***************************************************************************)
(* A model of conl-js: the tolerant two-pass tokenizer (raw lexer and      *)
(* stream validator, TokenKind-enum version), the throwing tokenizer of    *)
(* src/src/tokenizer.ts and the tree builder of src/src/parser.ts.         *)
(*                                                                         *)
(* A JavaScript string is modelled as a sequence of one-character strings, *)
(* so "a = b" is <<"a", " ", "=", " ", "b">>.                              *)
(***************************************************************************)
EXTENDS Integers, Sequences, FiniteSets, TLC

VARIABLES
    input,      \* the document handed to tokens() / parse()
    pc,         \* position of the tolerant pipeline: "lex", "end", "done", "thrown", "idle"
    lno,        \* lno of the line loop of tokenize(): the line of the current pass
    lex,        \* locals of tokenize(): stack, multiline, multilinePrefix, multilineValue,
                \* multilineLno, and the yield it is suspended at
    queue,      \* the raw token tokenize() has yielded, until tokens() is done with it
    states,     \* validator frame stack (ParseState[])
    lastLine,   \* validator's lastLine
    raised,     \* tokenize() was left by an exception
    out,        \* tokens yielded by tokens() so far
    yieldAt,    \* the yield tokens() is suspended at
    reviver,    \* the reviver handed to parse()
    ppc,        \* position of parse(): "run", "drain", "returned", "thrown", "idle"
    tlno,       \* lno of the throwing tokenizer (0-based)
    lastLno,    \* lastLno of the throwing tokenizer
    stack,      \* indent stack of the throwing tokenizer
    tokensAt,   \* the yield the throwing tokenizer is suspended at
    tqueue,     \* the token the throwing tokenizer has yielded, until parse() has taken it
    failure,    \* the exception the throwing tokenizer ended with
    tout,       \* tokens pulled from the throwing tokenizer so far
    frames,     \* sectionToValue activations: result and currentKey of each
    calls,      \* the reviver calls made so far: key, value, result
    ret,        \* the value parse() returned
    ufn,        \* the utility function called on input on its own, "" before the call
    ures,       \* what that call returned
    peer,       \* a second tokens() generator, suspended: its input and its locals
    solo        \* input, end and tokens of a tokens() generator that ran on its own

tvars == <<pc, lno, lex, queue, raised, states, lastLine, out, yieldAt>>

pvars == <<reviver, ppc, tlno, lastLno, stack, tokensAt, tqueue, failure, tout, frames,
           calls, ret>>

uvars == <<ufn, ures>>

gvars == <<peer, solo>>

vars == <<input, tvars, pvars, uvars, gvars>>

----------------------------------------------------------------------------
(* Bounds of the model *)

MaxLines == 3

----------------------------------------------------------------------------
(* Strings *)

WS == {" ", "\t"}

HexDigits == <<"0", "1", "2", "3", "4", "5", "6", "7", "8", "9",
               "a", "b", "c", "d", "e", "f">>

Last(s) == s[Len(s)]

\* String.prototype.startsWith
StartsWith(s, p) ==
    /\ Len(p) <= Len(s)
    /\ SubSeq(s, 1, Len(p)) = p

\* String.prototype.endsWith
EndsWith(s, p) ==
    /\ Len(p) <= Len(s)
    /\ SubSeq(s, Len(s) - Len(p) + 1, Len(s)) = p

\* String.prototype.substring(from) with a 0-based index
From(s, i) == SubSeq(s, i + 1, Len(s))

\* String.prototype.substring(from, to) with 0-based indices, clamped to the length
Substring(s, i, j) ==
    SubSeq(s, (IF i > Len(s) THEN Len(s) ELSE i) + 1, IF j > Len(s) THEN Len(s) ELSE j)

\* String.prototype.indexOf(c, from) for a one-character needle; -1 if absent
RECURSIVE IndexOfFrom(_, _, _)
IndexOfFrom(s, c, from) ==
    IF from >= Len(s) THEN -1
    ELSE IF s[from + 1] = c THEN from
    ELSE IndexOfFrom(s, c, from + 1)

IndexOf(s, c) == IndexOfFrom(s, c, 0)

\* the characters U+0020 .. U+005F and U+0061 .. U+007E
AsciiLow ==
    <<" ", "!", "\"", "#", "$", "%", "&", "'", "(", ")", "*", "+", ",", "-", ".", "/",
      "0", "1", "2", "3", "4", "5", "6", "7", "8", "9", ":", ";", "<", "=", ">", "?",
      "@", "A", "B", "C", "D", "E", "F", "G", "H", "I", "J", "K", "L", "M", "N", "O",
      "P", "Q", "R", "S", "T", "U", "V", "W", "X", "Y", "Z", "[", "\\", "]", "^", "_">>

AsciiHigh ==
    <<"a", "b", "c", "d", "e", "f", "g", "h", "i", "j", "k", "l", "m", "n", "o",
      "p", "q", "r", "s", "t", "u", "v", "w", "x", "y", "z", "{", "|", "}", "~">>

\* the characters of the code points that are written as themselves
CodePointTable ==
    (9 :> "\t") @@ (10 :> "\n") @@ (12 :> "\f") @@ (13 :> "\r") @@
    [n \in 32..95 |-> AsciiLow[n - 31]] @@ [n \in 97..126 |-> AsciiHigh[n - 96]]

\* String.fromCodePoint(n) for a valid code point n; a character that cannot be
\* written as itself is the one-element text U+n, n in decimal
fromCodePoint(n) ==
    IF n \in DOMAIN CodePointTable THEN CodePointTable[n] ELSE "U+" \o ToString(n)

\* String.fromCodePoint throws a RangeError outside 0 .. 0x10FFFF
fromCodePointThrows(n) == n < 0 \/ n > 1114111

\* LineTerminator of the language: LF, CR, LS, PS; what `.` does not match
LineTerminators == {fromCodePoint(n) : n \in {10, 13, 8232, 8233}}

\* WhiteSpace of the language: TAB, VT, FF, SP, NBSP, ZWNBSP and the space separators
WhiteSpace ==
    {fromCodePoint(n) : n \in {9, 11, 12, 32, 160, 5760, 8239, 8287, 12288, 65279}
                                 \cup 8192..8202}

\* what trimEnd strips and parseInt skips: StrWhiteSpaceChar
StrWhiteSpace == WhiteSpace \cup LineTerminators

\* length of the leading run of spaces and tabs
RECURSIVE LeadWs(_)
LeadWs(s) ==
    IF s # <<>> /\ Head(s) \in WS THEN 1 + LeadWs(Tail(s)) ELSE 0

\* length of the leading run of characters that `.` matches
RECURSIVE LeadDots(_)
LeadDots(s) ==
    IF s # <<>> /\ Head(s) \notin LineTerminators THEN 1 + LeadDots(Tail(s)) ELSE 0

\* String.prototype.trimEnd
RECURSIVE TrimEnd(_)
TrimEnd(s) ==
    IF s # <<>> /\ Last(s) \in StrWhiteSpace THEN TrimEnd(SubSeq(s, 1, Len(s) - 1)) ELSE s

\* utils.trimLeft: /^([ \t]*)(.*)/ always matches; (.*) stops at a line terminator
trimLeft(str) ==
    LET cut(n) == <<SubSeq(str, 1, n), SubSeq(str, n + 1, n + LeadDots(From(str, n)))>>
    IN  cut(LeadWs(str))

\* utils.cutPrefix
cutPrefix(str, prefix) ==
    IF StartsWith(str, prefix)
    THEN [rest |-> From(str, Len(prefix)), found |-> TRUE]
    ELSE [rest |-> str, found |-> FALSE]

\* utils.trimRight
RECURSIVE trimRight(_, _)
trimRight(str, chars) ==
    IF str # <<>> /\ Last(str) \in chars
    THEN trimRight(SubSeq(str, 1, Len(str) - 1), chars)
    ELSE str

\* utils.lines: split at \r\n, \r or \n; a last line is yielded when the
\* input is empty or does not end with a terminator
RECURSIVE LinesFrom(_, _)
LinesFrom(s, cur) ==
    IF s = <<>> THEN <<cur>>
    ELSE IF Head(s) = "\r" /\ Len(s) >= 2 /\ s[2] = "\n"
         THEN IF Len(s) = 2 THEN <<cur>> ELSE <<cur>> \o LinesFrom(From(s, 2), <<>>)
    ELSE IF Head(s) \in {"\r", "\n"}
         THEN IF Len(s) = 1 THEN <<cur>> ELSE <<cur>> \o LinesFrom(Tail(s), <<>>)
    ELSE LinesFrom(Tail(s), Append(cur, Head(s)))

\* lines without the last line of an empty input
lines_NoEmptyInput(inp) == IF inp = <<>> THEN <<>> ELSE LinesFrom(inp, <<>>)

lines(inp) == LinesFrom(inp, <<>>)

----------------------------------------------------------------------------
(* Literal splitter and literal decoder of the tolerant tokenizer (utils)   *)

\* utils.splitUnquoted
splitUnquoted(inp, key) ==
    LET keySplit(before, equalsIndex, semicolonIndex) ==
            IF semicolonIndex >= 0
            THEN <<TrimEnd(Substring(before, 0, semicolonIndex)), From(inp, semicolonIndex)>>
            ELSE <<TrimEnd(before), From(inp, equalsIndex)>>
        split(equalsIndex, semicolonIndex) ==
            IF key /\ equalsIndex >= 0
            THEN keySplit(Substring(inp, 0, equalsIndex), equalsIndex,
                          IndexOf(Substring(inp, 0, equalsIndex), ";"))
            ELSE IF semicolonIndex >= 0
            THEN <<TrimEnd(Substring(inp, 0, semicolonIndex)), From(inp, semicolonIndex)>>
            ELSE <<TrimEnd(inp), <<>>>>
    IN  split(IndexOf(inp, "="), IndexOf(inp, ";"))

\* the loop of utils.splitLiteral: 0-based index of the first `"` at or after
\* i that is not escaped, or -1
RECURSIVE ClosingQuote(_, _, _)
ClosingQuote(inp, i, wasEscape) ==
    IF i >= Len(inp) THEN -1
    ELSE IF inp[i + 1] = "\"" /\ ~wasEscape THEN i
    ELSE ClosingQuote(inp, i + 1, inp[i + 1] = "\\" /\ ~wasEscape)

\* utils.splitLiteral
splitLiteral(inp, key) ==
    LET closed(i, su) ==
            IF su[1] # <<>>
            THEN <<Substring(inp, 0, i + 1) \o su[1], su[2]>>
            ELSE <<Substring(inp, 0, i + 1), su[2]>>
        quoted(i) ==
            IF i < 0 THEN <<inp, <<>>>>
            ELSE closed(i, splitUnquoted(From(inp, i + 1), key))
    IN  IF StartsWith(inp, <<"\"">>)
        THEN quoted(ClosingQuote(inp, 1, FALSE))
        ELSE splitUnquoted(inp, key)

\* value of one hexadecimal digit, -1 for any other character
HexVal(c) ==
    IF \E k \in 1..16 : HexDigits[k] = c
    THEN (CHOOSE k \in 1..16 : HexDigits[k] = c) - 1
    ELSE CASE c = "A" -> 10 [] c = "B" -> 11 [] c = "C" -> 12
           [] c = "D" -> 13 [] c = "E" -> 14 [] c = "F" -> 15
           [] OTHER -> -1

\* the digit loop of parseInt: the longest prefix of hex digits
RECURSIVE HexPrefix(_, _, _)
HexPrefix(s, acc, n) ==
    IF s # <<>> /\ HexVal(Head(s)) >= 0
    THEN HexPrefix(Tail(s), acc * 16 + HexVal(Head(s)), n + 1)
    ELSE [val |-> acc, digits |-> n]

\* length of the leading run of StrWhiteSpaceChar
RECURSIVE LeadStrWs(_)
LeadStrWs(s) ==
    IF s # <<>> /\ Head(s) \in StrWhiteSpace THEN 1 + LeadStrWs(Tail(s)) ELSE 0

\* parseInt(s, 16): leading white space, an optional sign, an optional 0x,
\* then the longest run of hex digits; NaN when that run is empty
parseInt16(s) ==
    LET unsigned(t) == IF t # <<>> /\ Head(t) \in {"-", "+"} THEN Tail(t) ELSE t
        digits(u) == IF Len(u) >= 2 /\ u[1] = "0" /\ u[2] \in {"x", "X"} THEN From(u, 2) ELSE u
        number(neg, r) == [nan |-> r.digits = 0, val |-> IF neg THEN 0 - r.val ELSE r.val]
        signed(t) == number(t # <<>> /\ Head(t) = "-", HexPrefix(digits(unsigned(t)), 0, 0))
    IN  signed(From(s, LeadStrWs(s)))

\* what one pass of the decoding loop does at an escape: the index it moves to,
\* the text it appends, the escape it reports as bad, whether it threw
Escape(to, text, bad, thrown) == [to |-> to, text |-> text, bad |-> bad, thrown |-> thrown]

\* case "{" of utils.decodeLiteral
BraceEscape(content, i) ==
    LET code(closeIndex, codePoint) ==
            IF codePoint.nan \/ codePoint.val > 1114111
               \/ (codePoint.val >= 55296 /\ codePoint.val <= 57343)
            THEN Escape(closeIndex + 1, Substring(content, i, closeIndex + 1),
                        Substring(content, i, closeIndex + 1), FALSE)
            ELSE IF fromCodePointThrows(codePoint.val)
            THEN Escape(closeIndex + 1, <<>>, <<>>, TRUE)
            ELSE Escape(closeIndex + 1, <<fromCodePoint(codePoint.val)>>, <<>>, FALSE)
        brace(closeIndex) ==
            IF closeIndex = -1 \/ closeIndex = i + 2 \/ closeIndex - i > 10
            THEN Escape(i + 2, Substring(content, i, i + 2), Substring(content, i, i + 12), FALSE)
            ELSE code(closeIndex, parseInt16(Substring(content, i + 2, closeIndex)))
    IN  brace(IndexOfFrom(content, "}", i + 2))

\* EscapeAt with \t taken for the letter t
EscapeAt_TabAsLetter(content, i, nextChar) ==
    CASE nextChar = "n" -> Escape(i + 2, <<"\n">>, <<>>, FALSE)
      [] nextChar = "r" -> Escape(i + 2, <<"\r">>, <<>>, FALSE)
      [] nextChar = "t" -> Escape(i + 2, <<"t">>, <<>>, FALSE)
      [] nextChar = "\"" -> Escape(i + 2, <<"\"">>, <<>>, FALSE)
      [] nextChar = "\\" -> Escape(i + 2, <<"\\">>, <<>>, FALSE)
      [] nextChar = "{" -> BraceEscape(content, i)
      [] OTHER -> Escape(i + 2, Substring(content, i, i + 2), <<"\\", nextChar>>, FALSE)

\* the switch of utils.decodeLiteral on the character after a backslash
EscapeAt(content, i, nextChar) ==
    CASE nextChar = "n" -> Escape(i + 2, <<"\n">>, <<>>, FALSE)
      [] nextChar = "r" -> Escape(i + 2, <<"\r">>, <<>>, FALSE)
      [] nextChar = "t" -> Escape(i + 2, <<"\t">>, <<>>, FALSE)
      [] nextChar = "\"" -> Escape(i + 2, <<"\"">>, <<>>, FALSE)
      [] nextChar = "\\" -> Escape(i + 2, <<"\\">>, <<>>, FALSE)
      [] nextChar = "{" -> BraceEscape(content, i)
      [] OTHER -> Escape(i + 2, Substring(content, i, i + 2), <<"\\", nextChar>>, FALSE)

\* the while loop of utils.decodeLiteral over the text between the quotes
RECURSIVE DecodeLoop(_, _, _, _)
DecodeLoop(content, i, result, badEscape) ==
    LET step(e) ==
            IF e.thrown
            THEN [content |-> result, bad |-> badEscape, thrown |-> TRUE]
            ELSE DecodeLoop(content, e.to, result \o e.text,
                            IF badEscape = <<>> THEN e.bad ELSE badEscape)
    IN  IF i >= Len(content)
        THEN [content |-> result, bad |-> badEscape, thrown |-> FALSE]
        ELSE IF content[i + 1] = "\\" /\ i + 1 < Len(content)
        THEN step(EscapeAt(content, i, content[i + 2]))
        ELSE DecodeLoop(content, i + 1, Append(result, content[i + 1]), badEscape)

\* the text from the 0-based index i on matches (?:\\.|[^\\"])*"$ : pairs of a
\* backslash and a character that is no line break, other characters that are
\* no quote, then a quote as the last character
RECURSIVE MatchBody(_, _)
MatchBody(inp, i) ==
    IF i >= Len(inp) THEN FALSE
    ELSE IF inp[i + 1] = "\"" THEN i = Len(inp) - 1
    ELSE IF inp[i + 1] = "\\"
    THEN i + 1 < Len(inp) /\ inp[i + 2] \notin LineTerminators /\ MatchBody(inp, i + 2)
    ELSE MatchBody(inp, i + 1)

\* literalRegex of utils.decodeLiteral, /^"((?:\\.|[^\\"])*)"$/
MatchesLiteral(inp) ==
    /\ StartsWith(inp, <<"\"">>)
    /\ MatchBody(inp, 1)

\* utils.decodeLiteral: [content, error], and whether the call threw instead
decodeLiteral(inp) ==
    LET decoded(r) ==
            IF r.thrown
            THEN [content |-> <<>>, error |-> "", bad |-> <<>>, thrown |-> TRUE]
            ELSE IF r.bad # <<>>
            THEN [content |-> <<>>, error |-> "invalid escape code", bad |-> r.bad,
                  thrown |-> FALSE]
            ELSE [content |-> r.content, error |-> "", bad |-> <<>>, thrown |-> FALSE]
    IN  IF ~StartsWith(inp, <<"\"">>)
        THEN [content |-> inp, error |-> "", bad |-> <<>>, thrown |-> FALSE]
        ELSE IF ~MatchesLiteral(inp)
        THEN IF ~EndsWith(inp, <<"\"">>)
             THEN [content |-> <<>>, error |-> "unclosed quotes", bad |-> <<>>,
                   thrown |-> FALSE]
             ELSE [content |-> <<>>, error |-> "characters after quotes", bad |-> <<>>,
                   thrown |-> FALSE]
        ELSE decoded(DecodeLoop(SubSeq(inp, 2, Len(inp) - 1), 0, <<>>, <<>>))

\* utils.checkUtf8: a JavaScript string is never rejected
checkUtf8(content) == ""

----------------------------------------------------------------------------
(* The tolerant raw lexer: tokenize() of the TokenKind-enum tokenizer       *)

\* interface Token; error is "" when the field is absent
Token(l, k, c, e) == [lno |-> l, kind |-> k, content |-> c, error |-> e]

Top(stk) == stk[Len(stk)]

Pop(stk) == SubSeq(stk, 1, Len(stk) - 1)

\* the locals of tokenize() before the first line; at names the yield the
\* generator is suspended at
LexInit ==
    [stack |-> << <<>> >>, multiline |-> FALSE, multilinePrefix |-> <<>>,
     multilineValue |-> <<>>, multilineLno |-> 0, at |-> "start"]

\* tokenize() runs up to a yield: its locals there, the line its loop is at, the token
Yielded(st, l, at, tok) ==
    [st |-> [st EXCEPT !.at = at], lno |-> l, toks |-> <<tok>>, thrown |-> FALSE]

\* tokenize() runs to its end
Finished(st, l) == [st |-> [st EXCEPT !.at = "done"], lno |-> l, toks |-> <<>>, thrown |-> FALSE]

\* tokenize() is left by an exception
Threw(st, l) == [st |-> [st EXCEPT !.at = "thrown"], lno |-> l, toks |-> <<>>, thrown |-> TRUE]

\* the head of `for (const [lno, content] of lines(input))` after line l
RECURSIVE Continue(_, _, _)

\* `[comment, found] = cutPrefix(text, ';')` at the end of the loop body: the
\* Comment, or the next line
TrailingComment(st, l, lns, text, at) ==
    IF cutPrefix(text, <<";">>).found
    THEN Yielded(st, l, at, Token(l, "Comment", cutPrefix(text, <<";">>).rest,
                                  checkUtf8(cutPrefix(text, <<";">>).rest)))
    ELSE Continue(st, l, lns)

\* "Regular scalar value": the Scalar if the literal is not empty, else on to the comment
ScalarPart(st, l, lns, value, afterValue) ==
    LET scalar(dec) ==
            IF dec.thrown THEN Threw(st, l)
            ELSE Yielded(st, l, "scalar", Token(l, "Scalar", dec.content, dec.error))
    IN  IF value # <<>>
        THEN scalar(decodeLiteral(value))
        ELSE TrailingComment(st, l, lns, afterValue, "valueComment")

\* "Check for multiline indicator": multiline is set, the MultilineHint is yielded
HintPart(st, l, hint) ==
    Yielded([st EXCEPT !.multiline = TRUE, !.multilineLno = l], l, "hint",
            Token(l, "MultilineHint", hint, checkUtf8(hint)))

\* the value part of a line: comment, multiline indicator or scalar
ValuePart(st, l, lns, currentRest) ==
    LET scalarOf(v) == ScalarPart(st, l, lns, v[1], v[2])
    IN  IF cutPrefix(currentRest, <<";">>).found
        THEN TrailingComment(st, l, lns, currentRest, "entryComment")
        ELSE IF cutPrefix(currentRest, <<"\"", "\"", "\"">>).found
        THEN HintPart(st, l, splitLiteral(cutPrefix(currentRest, <<"\"", "\"", "\"">>).rest,
                                          FALSE)[1])
        ELSE scalarOf(splitLiteral(currentRest, FALSE))

\* the text after the key: an `=` and the white space around it are dropped
AfterKey(afterKey) ==
    LET equals(currentRest, afterEquals) ==
            IF currentRest # afterEquals THEN trimLeft(afterEquals)[2] ELSE currentRest
        trimmed(currentRest) == equals(currentRest, cutPrefix(currentRest, <<"=">>).rest)
    IN  trimmed(trimLeft(afterKey)[2])

\* "Map key": the MapKey with the decoded key
MapKeyPart(st, l, key) ==
    LET keyed(dec) ==
            IF dec.thrown THEN Threw(st, l)
            ELSE Yielded(st, l, "key", Token(l, "MapKey", dec.content, dec.error))
    IN  keyed(decodeLiteral(key))

\* KeyPart with the `=` of a list item kept as the token's content
KeyPart_ItemKeepsMarker(st, l, rest) ==
    IF cutPrefix(rest, <<"=">>).found
    THEN Yielded(st, l, "item", Token(l, "ListItem", <<"=">>, ""))
    ELSE MapKeyPart(st, l, splitLiteral(rest, TRUE)[1])

\* "Check for list item": the ListItem or the MapKey
KeyPart(st, l, rest) ==
    IF cutPrefix(rest, <<"=">>).found
    THEN Yielded(st, l, "item", Token(l, "ListItem", <<>>, ""))
    ELSE MapKeyPart(st, l, splitLiteral(rest, TRUE)[1])

\* currentRest when the value part is reached, from the text of the line
CurrentRest(rest) ==
    IF cutPrefix(rest, <<"=">>).found
    THEN trimLeft(cutPrefix(rest, <<"=">>).rest)[2]
    ELSE AfterKey(splitLiteral(rest, TRUE)[2])

\* "Handle outdents" from the test of the while loop, "Handle indent", then the key
Structure(st, l, indent, rest) ==
    IF ~StartsWith(indent, Top(st.stack))
    THEN Yielded([st EXCEPT !.stack = Pop(@)], l, "outdent", Token(l, "Outdent", <<>>, ""))
    ELSE IF indent # Top(st.stack)
    THEN Yielded([st EXCEPT !.stack = Append(@, indent)], l, "indent",
                 Token(l, "Indent", indent, ""))
    ELSE KeyPart(st, l, rest)

\* NormalLine with comment lines taken for entries
NormalLine_CommentsIndent(st, l, lns, indent, rest) ==
    IF rest = <<>>
    THEN Continue(st, l, lns)
    ELSE Structure(st, l, indent, rest)

\* a line from `if (rest === '')` on: blank, comment or entry
NormalLine(st, l, lns, indent, rest) ==
    IF rest = <<>>
    THEN Continue(st, l, lns)
    ELSE IF cutPrefix(rest, <<";">>).found
    THEN Yielded(st, l, "lineComment", Token(l, "Comment", cutPrefix(rest, <<";">>).rest,
                                             checkUtf8(cutPrefix(rest, <<";">>).rest)))
    ELSE Structure(st, l, indent, rest)

\* the end of a block: the MultilineScalar yielded, and the locals as they are
\* reset when the generator is resumed
BlockEnd(st) ==
    [st |-> [st EXCEPT !.multiline = FALSE, !.multilinePrefix = <<>>,
                       !.multilineValue = <<>>],
     tok |-> Token(st.multilineLno, "MultilineScalar",
                   trimRight(st.multilineValue, {" ", "\t", "\r", "\n"}),
                   checkUtf8(trimRight(st.multilineValue, {" ", "\t", "\r", "\n"})))]

\* the marker was not followed by a more indented line: the token yielded, and
\* the locals after the resumption
BlockMissing(st) ==
    [st |-> [st EXCEPT !.multiline = FALSE],
     tok |-> Token(st.multilineLno, "MultilineScalar", <<>>, "missing multiline value")]

\* the loop body from its top: `if (multiline) { ... }`, then the normal line
LineStep(st, l, lns, content, indent, rest) ==
    IF ~st.multiline THEN NormalLine(st, l, lns, indent, rest)
    ELSE IF st.multilinePrefix = <<>>
    THEN IF StartsWith(indent, Top(st.stack)) /\ indent # Top(st.stack)
         THEN Continue([st EXCEPT !.multilinePrefix = indent, !.multilineValue = rest,
                                  !.multilineLno = l], l, lns)
         ELSE IF rest = <<>> THEN Continue(st, l, lns)
         ELSE Yielded(st, l, "missing", BlockMissing(st).tok)
    ELSE IF StartsWith(content, st.multilinePrefix)
         THEN Continue([st EXCEPT !.multilineValue =
                           st.multilineValue \o <<"\n">>
                               \o From(content, Len(st.multilinePrefix))], l, lns)
         ELSE IF rest = <<>>
         THEN Continue([st EXCEPT !.multilineValue = st.multilineValue \o <<"\n">>], l, lns)
         ELSE Yielded(st, l, "blockEnd", BlockEnd(st).tok)

\* TokenizeEnd with the flush of a pending block forgotten
TokenizeEnd_NoFlush(st, l) == Finished(st, l)

\* "Handle any remaining multiline" after the line loop
TokenizeEnd(st, l) ==
    IF ~st.multiline THEN Finished(st, l)
    ELSE IF st.multilineValue # <<>> THEN Yielded(st, l, "lastBlock", BlockEnd(st).tok)
    ELSE Yielded(st, l, "lastBlock", BlockMissing(st).tok)

Continue(st, l, lns) ==
    IF l < Len(lns)
    THEN LineStep(st, l + 1, lns, lns[l + 1], trimLeft(lns[l + 1])[1], trimLeft(lns[l + 1])[2])
    ELSE TokenizeEnd(st, l)

\* tokenize().next(): the generator runs on from the yield it is suspended at,
\* in the pass on line l, to its next yield, its end or an exception. The
\* locals of the loop body (indent, rest, currentRest, afterHint, afterValue)
\* are those the pass computed from the line before it was suspended
TokenizeLine(st, l, lns) ==
    LET indent == trimLeft(lns[l])[1]
        rest == trimLeft(lns[l])[2]
        afterHint(currentRest) ==
            splitLiteral(cutPrefix(currentRest, <<"\"", "\"", "\"">>).rest, FALSE)[2]
        afterValue(currentRest) == splitLiteral(currentRest, FALSE)[2]
    IN  CASE st.at = "start" -> Continue(st, 0, lns)
          [] st.at = "missing" -> NormalLine(BlockMissing(st).st, l, lns, indent, rest)
          [] st.at = "blockEnd" -> NormalLine(BlockEnd(st).st, l, lns, indent, rest)
          [] st.at = "outdent" -> Structure(st, l, indent, rest)
          [] st.at = "indent" -> KeyPart(st, l, rest)
          [] st.at \in {"item", "key"} -> ValuePart(st, l, lns, CurrentRest(rest))
          [] st.at = "hint" ->
                TrailingComment(st, l, lns, afterHint(CurrentRest(rest)), "hintComment")
          [] st.at = "scalar" ->
                TrailingComment(st, l, lns, afterValue(CurrentRest(rest)), "valueComment")
          [] st.at \in {"lineComment", "entryComment", "hintComment", "valueComment"} ->
                Continue(st, l, lns)
          [] st.at = "lastBlock" -> Finished(st, l)

----------------------------------------------------------------------------
(* Documents *)

\* the lines with "\n" between them
RECURSIVE JoinLines(_)
JoinLines(ls) ==
    IF ls = <<>> THEN <<>>
    ELSE IF Len(ls) = 1 THEN ls[1]
    ELSE ls[1] \o <<"\n">> \o JoinLines(Tail(ls))

\* every document of 1 .. n lines drawn from a pool of lines
DocsOf(pool, n) ==
    {JoinLines(ls) : ls \in UNION {[1..k -> pool] : k \in 1..n}}

\* U+2028 LINE SEPARATOR and U+000C FORM FEED
LS == fromCodePoint(8232)

FF == fromCodePoint(12)

LinePool ==
    { <<"a">>,
      <<" ", "a">>,
      <<" ", " ", "a", " ">>,
      <<"=", " ", "b">>,
      <<" ", "=">>,
      <<"a", " ", "=", " ", "b", " ", ";", "c">>,
      <<";", "c">>,
      <<" ", " ">>,
      <<>>,
      <<" ", "b", "=", "\"", "\\", "{", "-", "1", "}", "\"">>,
      <<"a", "=", "\"", "\"", "\"", "h", ";", "c">>,
      <<"\t", "a", "=", "\"", "b">>,
      <<" ", LS, "a">>,
      <<LS, "a">> }

----------------------------------------------------------------------------
(* The tolerant tokens(): the stream validator pulling from tokenize()      *)

\* a fresh ParseState; kind Comment stands for "not yet known"
Frame == [kind |-> "Comment", hasKey |-> FALSE]

SetTop(stk, f) == [stk EXCEPT ![Len(stk)] = f]

\* no utility function is called on its own
UtilsIdle ==
    /\ ufn = ""
    /\ ures = <<>>

\* the locals of a tokens() generator that was not created
NoGenerator ==
    [input |-> <<>>, pc |-> "idle", lno |-> 0, lex |-> LexInit, queue |-> <<>>,
     raised |-> FALSE, states |-> <<>>, lastLine |-> 0, out |-> <<>>, yieldAt |-> "none"]

\* there is one tokens() generator at most, and none has run before it
OneGenerator ==
    /\ peer = NoGenerator
    /\ solo = [input |-> <<>>, pc |-> "idle", out |-> <<>>]

\* parse() is not running
ParseIdle ==
    /\ reviver = "identity"
    /\ ppc = "idle"
    /\ tlno = 0
    /\ lastLno = -1
    /\ stack = <<>>
    /\ tokensAt = "none"
    /\ tqueue = <<>>
    /\ failure = [name |-> "", lno |-> 0, text |-> "", detail |-> <<>>]
    /\ tout = <<>>
    /\ frames = <<>>
    /\ calls = <<>>
    /\ ret = [t |-> "undefined"]

\* tokens(input) before the first token is pulled
TokensStart ==
    /\ pc = "lex"
    /\ lno = 0
    /\ lex = LexInit
    /\ queue = <<>>
    /\ raised = FALSE
    /\ states = <<Frame>>
    /\ lastLine = 0
    /\ out = <<>>
    /\ yieldAt = "start"

\* the state before the first token is pulled, for a document of the set
InitOn(docs) ==
    /\ input \in docs
    /\ TokensStart
    /\ ParseIdle
    /\ UtilsIdle
    /\ OneGenerator

Init == InitOn(DocsOf(LinePool, MaxLines))

\* the yields of tokens() after which it asks tokenize() for the next token
Pulls == {"start", "kindError", "token"}

\* tokens() is resumed and calls tokenize().next(), which runs to its next yield
LexLine ==
    /\ pc = "lex" /\ queue = <<>> /\ yieldAt \in Pulls
    /\ \E r \in {TokenizeLine(lex, lno, lines(input))} :
           /\ r.toks # <<>>
           /\ lex' = r.st
           /\ lno' = r.lno
           /\ queue' = r.toks
    /\ UNCHANGED <<input, pc, raised, states, lastLine, out, yieldAt>>
    /\ UNCHANGED <<pvars, uvars, gvars>>

\* tokenize().next() runs to the end of tokenize(): the for loop of tokens() is over
LexEnd ==
    /\ pc = "lex" /\ queue = <<>> /\ yieldAt \in Pulls
    /\ \E r \in {TokenizeLine(lex, lno, lines(input))} :
           /\ r.toks = <<>> /\ ~r.thrown
           /\ lex' = r.st
           /\ lno' = r.lno
    /\ pc' = "end"
    /\ UNCHANGED <<input, queue, raised, states, lastLine, out, yieldAt>>
    /\ UNCHANGED <<pvars, uvars, gvars>>

\* tokenize().next() throws: the exception leaves tokens()
Throw ==
    /\ pc = "lex" /\ queue = <<>> /\ yieldAt \in Pulls
    /\ \E r \in {TokenizeLine(lex, lno, lines(input))} :
           /\ r.thrown
           /\ lex' = r.st
           /\ lno' = r.lno
    /\ raised' = TRUE
    /\ pc' = "thrown"
    /\ yieldAt' = "none"
    /\ UNCHANGED <<input, queue, states, lastLine, out>>
    /\ UNCHANGED <<pvars, uvars, gvars>>

\* OnIndent without states.push
OnIndent_NoPush ==
    /\ queue # <<>> /\ Head(queue).kind = "Indent"
    /\ LET token == Head(queue)
           state == Top(states)
           kind == IF state.kind = "Comment" THEN "MapKey" ELSE state.kind
       IN  IF yieldAt # "indentError" /\ ~state.hasKey
           THEN /\ out' = Append(out, Token(token.lno, kind, <<>>, "unexpected indent"))
                /\ yieldAt' = "indentError"
                /\ UNCHANGED <<states, lastLine, queue>>
           ELSE /\ states' = SetTop(states, [state EXCEPT !.hasKey = FALSE])
                /\ lastLine' = token.lno
                /\ out' = Append(out, token)
                /\ queue' = Tail(queue)
                /\ yieldAt' = "token"
    /\ UNCHANGED <<input, pc, lno, lex, raised>>
    /\ UNCHANGED <<pvars, uvars, gvars>>

\* case TokenKind.Indent: with no key pending the error token is yielded first;
\* resumed there, or with a key pending, the frame is pushed and the Indent yielded
OnIndent ==
    /\ queue # <<>> /\ Head(queue).kind = "Indent"
    /\ LET token == Head(queue)
           state == Top(states)
           kind == IF state.kind = "Comment" THEN "MapKey" ELSE state.kind
       IN  IF yieldAt # "indentError" /\ ~state.hasKey
           THEN /\ out' = Append(out, Token(token.lno, kind, <<>>, "unexpected indent"))
                /\ yieldAt' = "indentError"
                /\ UNCHANGED <<states, lastLine, queue>>
           ELSE /\ states' = Append(SetTop(states, [state EXCEPT !.hasKey = FALSE]), Frame)
                /\ lastLine' = token.lno
                /\ out' = Append(out, token)
                /\ queue' = Tail(queue)
                /\ yieldAt' = "token"
    /\ UNCHANGED <<input, pc, lno, lex, raised>>
    /\ UNCHANGED <<pvars, uvars, gvars>>

\* OnOutdent that also forgets the kind of the section it returns to
OnOutdent_ForgetsKind ==
    /\ queue # <<>> /\ Head(queue).kind = "Outdent"
    /\ LET token == Head(queue)
           state == Top(states)
           rest == Pop(states)
           popped == IF rest = <<>> THEN rest
                     ELSE SetTop(rest, [Top(rest) EXCEPT !.kind = "Comment"])
       IN  IF yieldAt # "outdentNoValue" /\ state.hasKey
           THEN /\ states' = popped
                /\ out' = Append(out, Token(token.lno, "NoValue", <<>>, ""))
                /\ yieldAt' = "outdentNoValue"
                /\ UNCHANGED <<lastLine, queue>>
           ELSE /\ states' = IF yieldAt = "outdentNoValue" THEN states ELSE popped
                /\ lastLine' = token.lno
                /\ out' = Append(out, token)
                /\ queue' = Tail(queue)
                /\ yieldAt' = "token"
    /\ UNCHANGED <<input, pc, lno, lex, raised>>
    /\ UNCHANGED <<pvars, uvars, gvars>>

\* case TokenKind.Outdent: the frame is popped; with a key pending in it NoValue
\* is yielded first; resumed there, or with no key pending, the Outdent is yielded
OnOutdent ==
    /\ queue # <<>> /\ Head(queue).kind = "Outdent"
    /\ LET token == Head(queue)
           state == Top(states)
       IN  IF yieldAt # "outdentNoValue" /\ state.hasKey
           THEN /\ states' = Pop(states)
                /\ out' = Append(out, Token(token.lno, "NoValue", <<>>, ""))
                /\ yieldAt' = "outdentNoValue"
                /\ UNCHANGED <<lastLine, queue>>
           ELSE /\ states' = IF yieldAt = "outdentNoValue" THEN states ELSE Pop(states)
                /\ lastLine' = token.lno
                /\ out' = Append(out, token)
                /\ queue' = Tail(queue)
                /\ yieldAt' = "token"
    /\ UNCHANGED <<input, pc, lno, lex, raised>>
    /\ UNCHANGED <<pvars, uvars, gvars>>

\* OnKey with the incoming token itself yielded, tagged with the error
OnKey_EmitsIncoming ==
    /\ queue # <<>> /\ Head(queue).kind \in {"ListItem", "MapKey"}
    /\ LET token == Head(queue)
           state == Top(states)
           kind == IF state.kind = "Comment" THEN token.kind ELSE state.kind
       IN  IF yieldAt # "keyNoValue" /\ state.hasKey
           THEN /\ states' = SetTop(states, [state EXCEPT !.kind = kind])
                /\ out' = Append(out, Token(token.lno, "NoValue", <<>>, ""))
                /\ yieldAt' = "keyNoValue"
                /\ UNCHANGED <<lastLine, queue>>
           ELSE /\ states' = SetTop(states, [kind |-> kind, hasKey |-> TRUE])
                /\ queue' = Tail(queue)
                /\ IF kind = "MapKey" /\ token.kind = "ListItem"
                   THEN /\ out' = Append(out, [token EXCEPT !.error = "unexpected list item"])
                        /\ yieldAt' = "kindError"
                        /\ lastLine' = lastLine
                   ELSE IF kind = "ListItem" /\ token.kind = "MapKey"
                   THEN /\ out' = Append(out, [token EXCEPT !.error = "unexpected map key"])
                        /\ yieldAt' = "kindError"
                        /\ lastLine' = lastLine
                   ELSE /\ out' = Append(out, token)
                        /\ yieldAt' = "token"
                        /\ lastLine' = token.lno
    /\ UNCHANGED <<input, pc, lno, lex, raised>>
    /\ UNCHANGED <<pvars, uvars, gvars>>

\* case TokenKind.ListItem, case TokenKind.MapKey: the section takes the kind of
\* its first entry; with a key pending NoValue is yielded first; resumed there,
\* or with no key pending, hasKey is set and the token is yielded, or, in a
\* section of the other kind, the error token, after which the loop continues
OnKey ==
    /\ queue # <<>> /\ Head(queue).kind \in {"ListItem", "MapKey"}
    /\ LET token == Head(queue)
           state == Top(states)
           kind == IF state.kind = "Comment" THEN token.kind ELSE state.kind
       IN  IF yieldAt # "keyNoValue" /\ state.hasKey
           THEN /\ states' = SetTop(states, [state EXCEPT !.kind = kind])
                /\ out' = Append(out, Token(token.lno, "NoValue", <<>>, ""))
                /\ yieldAt' = "keyNoValue"
                /\ UNCHANGED <<lastLine, queue>>
           ELSE /\ states' = SetTop(states, [kind |-> kind, hasKey |-> TRUE])
                /\ queue' = Tail(queue)
                /\ IF kind = "MapKey" /\ token.kind = "ListItem"
                   THEN /\ out' = Append(out, Token(token.lno, "MapKey", <<>>,
                                                    "unexpected list item"))
                        /\ yieldAt' = "kindError"
                        /\ lastLine' = lastLine
                   ELSE IF kind = "ListItem" /\ token.kind = "MapKey"
                   THEN /\ out' = Append(out, Token(token.lno, "ListItem", <<>>,
                                                    "unexpected map key"))
                        /\ yieldAt' = "kindError"
                        /\ lastLine' = lastLine
                   ELSE /\ out' = Append(out, token)
                        /\ yieldAt' = "token"
                        /\ lastLine' = token.lno
    /\ UNCHANGED <<input, pc, lno, lex, raised>>
    /\ UNCHANGED <<pvars, uvars, gvars>>

\* case TokenKind.Scalar, case TokenKind.MultilineScalar
OnValue ==
    /\ queue # <<>> /\ Head(queue).kind \in {"Scalar", "MultilineScalar"}
    /\ states' = SetTop(states, [Top(states) EXCEPT !.hasKey = FALSE])
    /\ out' = Append(out, Head(queue))
    /\ lastLine' = Head(queue).lno
    /\ queue' = Tail(queue)
    /\ yieldAt' = "token"
    /\ UNCHANGED <<input, pc, lno, lex, raised>>
    /\ UNCHANGED <<pvars, uvars, gvars>>

\* OnPassThrough falling through to the scalar case: the pending key is dropped
OnPassThrough_ClearsKey ==
    /\ queue # <<>> /\ Head(queue).kind \in {"Comment", "MultilineHint"}
    /\ out' = Append(out, Head(queue))
    /\ lastLine' = Head(queue).lno
    /\ queue' = Tail(queue)
    /\ yieldAt' = "token"
    /\ states' = SetTop(states, [Top(states) EXCEPT !.hasKey = FALSE])
    /\ UNCHANGED <<input, pc, lno, lex, raised>>
    /\ UNCHANGED <<pvars, uvars, gvars>>

\* case TokenKind.Comment, case TokenKind.MultilineHint
OnPassThrough ==
    /\ queue # <<>> /\ Head(queue).kind \in {"Comment", "MultilineHint"}
    /\ out' = Append(out, Head(queue))
    /\ lastLine' = Head(queue).lno
    /\ queue' = Tail(queue)
    /\ yieldAt' = "token"
    /\ UNCHANGED <<input, pc, lno, lex, raised, states>>
    /\ UNCHANGED <<pvars, uvars, gvars>>

\* FlushFrame without states.pop(): the loop never leaves the frame it is at
FlushFrame_NoPop ==
    /\ pc = "end"
    /\ LET sts == states
       IN  IF yieldAt # "flushNoValue" /\ sts # <<>> /\ Top(sts).hasKey
           THEN /\ out' = Append(out, Token(lastLine, "NoValue", <<>>, ""))
                /\ yieldAt' = "flushNoValue"
                /\ states' = sts
                /\ pc' = pc
           ELSE IF Len(sts) > 1
           THEN /\ out' = Append(out, Token(lastLine, "Outdent", <<>>, ""))
                /\ yieldAt' = "flushOutdent"
                /\ states' = sts
                /\ pc' = pc
           ELSE /\ out' = out
                /\ yieldAt' = "none"
                /\ states' = <<>>
                /\ pc' = "done"
    /\ UNCHANGED <<input, lno, lex, queue, raised, lastLine>>
    /\ UNCHANGED <<pvars, uvars, gvars>>

\* "Handle remaining states" up to its next yield: resumed after the Outdent
\* the frame is popped; from the top of the loop NoValue is yielded for a
\* pending key; then the Outdent if the frame is not the last; and when the
\* last frame is popped tokens() ends
FlushFrame ==
    /\ pc = "end"
    /\ LET sts == IF yieldAt = "flushOutdent" THEN Pop(states) ELSE states
       IN  IF yieldAt # "flushNoValue" /\ sts # <<>> /\ Top(sts).hasKey
           THEN /\ out' = Append(out, Token(lastLine, "NoValue", <<>>, ""))
                /\ yieldAt' = "flushNoValue"
                /\ states' = sts
                /\ pc' = pc
           ELSE IF Len(sts) > 1
           THEN /\ out' = Append(out, Token(lastLine, "Outdent", <<>>, ""))
                /\ yieldAt' = "flushOutdent"
                /\ states' = sts
                /\ pc' = pc
           ELSE /\ out' = out
                /\ yieldAt' = "none"
                /\ states' = <<>>
                /\ pc' = "done"
    /\ UNCHANGED <<input, lno, lex, queue, raised, lastLine>>
    /\ UNCHANGED <<pvars, uvars, gvars>>

Next ==
    \/ LexLine
    \/ LexEnd
    \/ Throw
    \/ OnIndent
    \/ OnOutdent
    \/ OnKey
    \/ OnValue
    \/ OnPassThrough
    \/ FlushFrame

Spec == Init /\ [][Next]_vars

----------------------------------------------------------------------------
(* The throwing tokenizer: tokens() of src/src/tokenizer.ts                 *)

\* a token of the throwing tokenizer; kinds without content carry <<>>
PTok(l, k, c) == [lno |-> l, kind |-> k, content |-> c]

\* no exception
NoError == [name |-> "", lno |-> 0, text |-> "", detail |-> <<>>]

\* new Error(lno + 1 + ": " + text), with the text after it for an escape
Error(l, text, detail) == [name |-> "Error", lno |-> l + 1, text |-> text, detail |-> detail]

\* what String.fromCodePoint throws for an invalid code point
RangeError == [name |-> "RangeError", lno |-> 0, text |-> "Invalid code point", detail |-> <<>>]

\* what destructuring the null of a failed match throws
TypeError == [name |-> "TypeError", lno |-> 0, text |-> "not iterable", detail |-> <<>>]

\* input.split(/[ \t]*(?:\r\n|\r|\n)/): the white space before a terminator
\* goes with the terminator
RECURSIVE SplitFrom(_, _)
SplitFrom(s, cur) ==
    IF s = <<>> THEN <<cur>>
    ELSE IF Head(s) = "\r" /\ Len(s) >= 2 /\ s[2] = "\n"
    THEN <<trimRight(cur, WS)>> \o SplitFrom(From(s, 2), <<>>)
    ELSE IF Head(s) \in {"\r", "\n"}
    THEN <<trimRight(cur, WS)>> \o SplitFrom(Tail(s), <<>>)
    ELSE SplitFrom(Tail(s), Append(cur, Head(s)))

\* line.match(/^([ \t]*)(.*)$/): (.*) has to reach the end of the line, which it
\* does not when the line holds a line terminator; the match is then null
IndentAndContent(line) ==
    [ok |-> LeadDots(line) = Len(line),
     indent |-> SubSeq(line, 1, LeadWs(line)), content |-> From(line, LeadWs(line))]

\* the lines array of tokens()
SplitLines(inp) ==
    LET rec(ls) == [i \in 1..Len(ls) |-> IndentAndContent(ls[i])]
    IN  rec(SplitFrom(inp, <<>>))

\* a decoded literal, or the exception decoding ended with
Decoded(c) == [content |-> c, error |-> NoError]

Failed(e) == [content |-> <<>>, error |-> e]

\* the replace callback for a match of \{([^}]*)\}
HexEscape(l, match, hex) ==
    LET code(codePoint) ==
            IF Len(hex) > 8 \/ codePoint.nan \/ codePoint.val > 1114111
               \/ (codePoint.val >= 55296 /\ codePoint.val <= 57343)
            THEN Failed(Error(l, "invalid escape code", match))
            ELSE IF fromCodePointThrows(codePoint.val)
            THEN Failed(RangeError)
            ELSE Decoded(<<fromCodePoint(codePoint.val)>>)
    IN  code(parseInt16(hex))

\* the replace callback for a match of \\(.): hex is undefined and parses to NaN
CharEscape(l, match, c) ==
    CASE c = "n" -> Decoded(<<"\n">>)
      [] c = "r" -> Decoded(<<"\r">>)
      [] c = "t" -> Decoded(<<"\t">>)
      [] c = "\"" -> Decoded(<<"\"">>)
      [] c = "\\" -> Decoded(<<"\\">>)
      [] OTHER -> Failed(Error(l, "invalid escape code", match))

\* replace(/\\\{([^}]*)\}|\\(.)|(")/g, ...) from the 0-based index i on
RECURSIVE ReplaceAll(_, _, _, _)
ReplaceAll(l, inner, i, acc) ==
    LET next(r, to) ==
            IF r.error # NoError THEN r ELSE ReplaceAll(l, inner, to, acc \o r.content)
        char == next(CharEscape(l, Substring(inner, i, i + 2), inner[i + 2]), i + 2)
        brace(closeIndex) ==
            IF closeIndex >= 0
            THEN next(HexEscape(l, Substring(inner, i, closeIndex + 1),
                                Substring(inner, i + 2, closeIndex)), closeIndex + 1)
            ELSE char
    IN  IF i >= Len(inner) THEN Decoded(acc)
        ELSE IF inner[i + 1] = "\\" /\ i + 1 < Len(inner) /\ inner[i + 2] \notin LineTerminators
        THEN IF inner[i + 2] = "{" THEN brace(IndexOfFrom(inner, "}", i + 2)) ELSE char
        ELSE IF inner[i + 1] = "\""
        THEN Failed(Error(l, "characters after quotes", <<>>))
        ELSE ReplaceAll(l, inner, i + 1, Append(acc, inner[i + 1]))

\* decodeLiteral of tokenizer.ts; substring(1, 0) of a lone quote is the quote
tokenizerDecodeLiteral(l, inp) ==
    IF ~StartsWith(inp, <<"\"">>) THEN Decoded(inp)
    ELSE IF ~EndsWith(inp, <<"\"">>) THEN Failed(Error(l, "unclosed quotes", <<>>))
    ELSE ReplaceAll(l, IF Len(inp) = 1 THEN inp ELSE SubSeq(inp, 2, Len(inp) - 1), 0, <<>>)

\* "(?:[^"\\]|\\.)*" at the 1-based position p: the position after the
\* closing quote, or 0 when it does not match
RECURSIVE QuotedBody(_, _)
QuotedBody(s, p) ==
    IF p > Len(s) THEN 0
    ELSE IF s[p] = "\"" THEN p + 1
    ELSE IF s[p] = "\\"
    THEN IF p + 1 > Len(s) \/ s[p + 1] \in LineTerminators THEN 0 ELSE QuotedBody(s, p + 2)
    ELSE QuotedBody(s, p + 1)

QuotedEnd(s, p) ==
    IF p <= Len(s) /\ s[p] = "\"" THEN QuotedBody(s, p + 1) ELSE 0

\* the characters that end an unquoted key, an unquoted value
KeyStop == {"=", ";", " ", "\t"}

ValueStop == {";", " ", "\t"}

\* (?:[^...]|[ \t][^...])* from position p: the positions it can end at, the
\* longest run first (the order in which the matcher tries them)
RECURSIVE UnquotedEnds(_, _, _)
UnquotedEnds(s, p, stop) ==
    IF p <= Len(s) /\ s[p] \notin stop
    THEN UnquotedEnds(s, p + 1, stop) \o <<p>>
    ELSE IF p + 1 <= Len(s) /\ s[p] \in WS /\ s[p + 1] \notin stop
    THEN UnquotedEnds(s, p + 2, stop) \o <<p>>
    ELSE <<p>>

\* an optional quoted part and an unquoted run from position p: the end
\* positions in the order tried
LiteralEnds(s, p, stop) ==
    (IF QuotedEnd(s, p) # 0 THEN UnquotedEnds(s, QuotedEnd(s, p), stop) ELSE <<>>)
        \o UnquotedEnds(s, p, stop)

\* [ \t]* from position p
SkipWs(s, p) == p + LeadWs(SubSeq(s, p, Len(s)))

\* [ \t]*(?:;|$) at position p
LineEndsAt(s, p) == SkipWs(s, p) > Len(s) \/ s[SkipWs(s, p)] = ";"

\* the first position of a sequence that is marked good, or 0
FirstOf(ps, good) ==
    IF \E i \in 1..Len(ps) : good[i]
    THEN ps[CHOOSE i \in 1..Len(ps) : good[i] /\ \A j \in 1..(i - 1) : ~good[j]]
    ELSE 0

\* the positions [ \t]* can leave off at after the `=` at position e, longest first
ValueStarts(s, e) == [i \in 1..(SkipWs(s, e + 1) - e) |-> SkipWs(s, e + 1) + 1 - i]

\* (?:[ \t]*=[ \t]*(value))? [ \t]*(?:;|$) after a key ending before position k:
\* the start and end of the value, <<0, 0>> when the group is skipped, or
\* <<-1, -1>> when the rest of the pattern fails for this key
RestOfLine(s, k) ==
    LET e == SkipWs(s, k)
        ends(ps) == FirstOf(ps, [i \in 1..Len(ps) |-> LineEndsAt(s, ps[i])])
        valueEnd(v) == ends(LiteralEnds(s, v, ValueStop))
        starts(ps) == FirstOf(ps, [i \in 1..Len(ps) |-> valueEnd(ps[i]) # 0])
        start(v) == IF v = 0 THEN IF LineEndsAt(s, k) THEN <<0, 0>> ELSE <<-1, -1>>
                    ELSE <<v, valueEnd(v)>>
    IN  IF e <= Len(s) /\ s[e] = "="
        THEN start(starts(ValueStarts(s, e)))
        ELSE IF LineEndsAt(s, k) THEN <<0, 0>> ELSE <<-1, -1>>

\* line.match(SPLIT_LINE): the key and the tail, or no match (null)
SPLIT_LINE(s) ==
    LET found(k, r) ==
            [ok |-> TRUE, key |-> SubSeq(s, 1, k - 1),
             tail |-> IF r[1] = 0 THEN <<>> ELSE SubSeq(s, r[1], r[2] - 1)]
        pick(k) ==
            IF k = 0 THEN [ok |-> FALSE, key |-> <<>>, tail |-> <<>>]
            ELSE found(k, RestOfLine(s, k))
        keys(ps) == FirstOf(ps, [i \in 1..Len(ps) |-> RestOfLine(s, ps[i])[1] # -1])
    IN  pick(keys(LiteralEnds(s, 1, KeyStop)))

\* tail?.match(/^"""(?![ \t]*")/)
IsMultilineMarker(tail) ==
    /\ StartsWith(tail, <<"\"", "\"", "\"">>)
    /\ ~(SkipWs(tail, 4) <= Len(tail) /\ tail[SkipWs(tail, 4)] = "\"")

\* indent.replace(prefix, ""): the first occurrence removed
ReplaceFirst(s, pat) ==
    LET at(i) == i + Len(pat) - 1 <= Len(s) /\ SubSeq(s, i, i + Len(pat) - 1) = pat
        cut(i) == SubSeq(s, 1, i - 1) \o SubSeq(s, i + Len(pat), Len(s))
    IN  IF \E i \in 1..Len(s) : at(i)
        THEN cut(CHOOSE i \in 1..Len(s) : at(i) /\ \A j \in 1..(i - 1) : ~at(j))
        ELSE s

\* the first loop of consumeMultiline: lno after the empty lines are passed
RECURSIVE SkipEmpty(_, _)
SkipEmpty(lns, l) ==
    IF l + 1 < Len(lns) /\ lns[l + 2].content = <<>> THEN SkipEmpty(lns, l + 1) ELSE l

\* the second loop of consumeMultiline and its return
RECURSIVE MultilineBody(_, _, _, _)
MultilineBody(lns, l, prefix, result) ==
    IF l + 1 < Len(lns)
       /\ (StartsWith(lns[l + 2].indent, prefix) \/ lns[l + 2].content = <<>>)
    THEN MultilineBody(lns, l + 1, prefix,
                       result \o <<"\n">> \o ReplaceFirst(lns[l + 2].indent, prefix)
                              \o lns[l + 2].content)
    ELSE [lno |-> l, content |-> trimRight(result, {"\n"}), error |-> NoError]

\* consumeMultiline(indent) called with lno = l: lno afterwards, and the scalar
\* or the exception
consumeMultiline(lns, l, indent) ==
    LET body(k) ==
            IF k + 1 = Len(lns) \/ ~StartsWith(lns[k + 2].indent, indent)
               \/ lns[k + 2].indent = indent
            THEN [lno |-> k, content |-> <<>>,
                  error |-> Error(k, "missing multiline value", <<>>)]
            ELSE MultilineBody(lns, k + 1, lns[k + 2].indent, lns[k + 2].content)
    IN  body(SkipEmpty(lns, l))

\* what tokens().next() leaves: the tokenizer's locals, the yield it is
\* suspended at, the token yielded, the exception that ended it
LineOut(stk, l, last, at, toks, error) ==
    [stack |-> stk, lno |-> l, lastLno |-> last, at |-> at, toks |-> toks, error |-> error]

\* the `while (lno < lines.length)` of tokens() from its test, with lno = l
RECURSIVE WhileLoop(_, _, _, _)

\* tokenizeLine resumed after the key or item: a multiline block, a scalar, or
\* its end and `lno += 1`
TailPart(stk, l, last, lns, indent, tail) ==
    LET multiline(m) ==
            IF m.error # NoError
            THEN LineOut(stk, m.lno, -1, "thrown", <<>>, m.error)
            ELSE LineOut(stk, m.lno, -1, "value", <<PTok(l, "scalar", m.content)>>, NoError)
        scalar(d) ==
            IF d.error # NoError
            THEN LineOut(stk, l, last, "thrown", <<>>, d.error)
            ELSE LineOut(stk, l, -1, "value", <<PTok(l, "scalar", d.content)>>, NoError)
    IN  IF IsMultilineMarker(tail) THEN multiline(consumeMultiline(lns, l, indent))
        ELSE IF tail # <<>> THEN scalar(tokenizerDecodeLiteral(l, tail))
        ELSE WhileLoop(stk, l + 1, last, lns)

\* a section that lets entries of the other kind in
KindError_Never(l, sectionKind, kind) == NoError

\* the check of an item or key against the kind of its section
KindError(l, sectionKind, kind) ==
    IF sectionKind = "item" /\ kind = "key" THEN Error(l, "unexpected map key", <<>>)
    ELSE IF sectionKind = "key" /\ kind = "item" THEN Error(l, "unexpected list item", <<>>)
    ELSE NoError

\* the token tokenizeLine yields for the key part of a matched line
EntryToken(l, m) ==
    IF m.key # <<>> THEN PTok(l, "key", tokenizerDecodeLiteral(l, m.key).content)
    ELSE PTok(l, "item", <<>>)

\* the key or item of a line: matched, decoded, checked against the section's
\* kind; the null of a key left without a value is yielded before it
EntryPart(stk, l, last, m) ==
    LET entry(kind) ==
            IF KindError(l, Top(stk).kind, kind) # NoError
            THEN LineOut(stk, l, last, "thrown", <<>>, KindError(l, Top(stk).kind, kind))
            ELSE IF last > -1
            THEN LineOut(SetTop(stk, [Top(stk) EXCEPT !.kind = IF @ = "" THEN kind ELSE @]),
                         l, last, "nullEntry", <<PTok(last, "null", <<>>)>>, NoError)
            ELSE LineOut(SetTop(stk, [Top(stk) EXCEPT !.kind = IF @ = "" THEN kind ELSE @]),
                         l, l, "entry", <<EntryToken(l, m)>>, NoError)
        key(d) ==
            IF d.error # NoError THEN LineOut(stk, l, last, "thrown", <<>>, d.error)
            ELSE entry("key")
    IN  IF ~m.ok THEN LineOut(stk, l, last, "thrown", <<>>, TypeError)
        ELSE IF m.key # <<>> THEN key(tokenizerDecodeLiteral(l, m.key))
        ELSE entry("item")

\* the `if` after the while loop of tokenizeLine: a deeper line pushes its
\* indent; tokens() throws on the indent when no key is pending
IndentPart(stk, l, last, indent, line) ==
    IF indent # Top(stk).indent
    THEN IF last = -1
         THEN LineOut(Append(stk, [indent |-> indent, kind |-> ""]), l, last, "thrown", <<>>,
                      Error(l, "unexpected indent", <<>>))
         ELSE LineOut(Append(stk, [indent |-> indent, kind |-> ""]), l, -1, "indent",
                      <<PTok(l, "indent", <<>>)>>, NoError)
    ELSE EntryPart(stk, l, last, SPLIT_LINE(line))

\* the while loop of tokenizeLine from its test: a level is popped and the
\* outdent yielded, after the null of a pending key
PopIndents(stk, l, last, indent, line) ==
    IF ~StartsWith(indent, Top(stk).indent)
    THEN IF last > -1
         THEN LineOut(Pop(stk), l, last, "nullOutdent", <<PTok(last, "null", <<>>)>>, NoError)
         ELSE LineOut(Pop(stk), l, last, "outdent", <<PTok(l, "outdent", <<>>)>>, NoError)
    ELSE IndentPart(stk, l, last, indent, line)

\* tokenizeLine(indent, line) from its start, for the line at lno = l
tokenizeLine(stk, l, last, lns) ==
    IF lns[l + 1].content = <<>> \/ Head(lns[l + 1].content) = ";"
    THEN WhileLoop(stk, l + 1, last, lns)
    ELSE PopIndents(stk, l, last, lns[l + 1].indent, lns[l + 1].content)

\* `while (stack.length > 1)` from its test
Closing(stk, l, last) ==
    IF Len(stk) > 1
    THEN LineOut(Pop(stk), l, last, "closing", <<PTok(l, "outdent", <<>>)>>, NoError)
    ELSE LineOut(stk, l, last, "done", <<>>, NoError)

\* what tokens() does after its while loop
tokensEnd(stk, l, last) ==
    IF last > -1
    THEN LineOut(stk, l, last, "lastNull", <<PTok(last, "null", <<>>)>>, NoError)
    ELSE Closing(stk, l, last)

WhileLoop(stk, l, last, lns) ==
    IF l < Len(lns) THEN tokenizeLine(stk, l, last, lns) ELSE tokensEnd(stk, l, last)

\* tokens().next() of tokenizer.ts: the generator, and tokenizeLine inside it,
\* run on from the yield they are suspended at to the next yield, the end or
\* an exception; the first call splits the input and matches every line
TokensNext(stk, l, last, at, lns) ==
    CASE at = "start" ->
            IF \E i \in 1..Len(lns) : ~lns[i].ok
            THEN LineOut(stk, l, last, "thrown", <<>>, TypeError)
            ELSE WhileLoop(stk, l, last, lns)
      [] at = "nullOutdent" ->
            LineOut(stk, l, -1, "outdent", <<PTok(l, "outdent", <<>>)>>, NoError)
      [] at = "outdent" -> PopIndents(stk, l, last, lns[l + 1].indent, lns[l + 1].content)
      [] at = "indent" -> EntryPart(stk, l, last, SPLIT_LINE(lns[l + 1].content))
      [] at = "nullEntry" ->
            LineOut(stk, l, l, "entry", <<EntryToken(l, SPLIT_LINE(lns[l + 1].content))>>,
                    NoError)
      [] at = "entry" ->
            TailPart(stk, l, last, lns, lns[l + 1].indent, SPLIT_LINE(lns[l + 1].content).tail)
      [] at = "value" -> WhileLoop(stk, l + 1, last, lns)
      [] at \in {"lastNull", "closing"} -> Closing(stk, l, last)

----------------------------------------------------------------------------
(* Values and the tree builder: parse() and sectionToValue() of parser.ts   *)

Str(s) == [t |-> "string", s |-> s]

Num(n) == [t |-> "number", n |-> n]

Null == [t |-> "null"]

Undefined == [t |-> "undefined"]

\* Object.prototype, where the accessor __proto__ lives
ObjectPrototype == [t |-> "Object.prototype"]

\* {}: own properties and the prototype
EmptyObject == [t |-> "object", own |-> <<>>, proto |-> ObjectPrototype]

\* []
EmptyArray == [t |-> "array", items |-> <<>>]

ProtoKey == <<"_", "_", "p", "r", "o", "t", "o", "_", "_">>

\* looking up __proto__ from o reaches the accessor of Object.prototype
RECURSIVE ReachesProtoSetter(_)
ReachesProtoSetter(o) ==
    CASE o.t = "Object.prototype" -> TRUE
      [] o.t = "array" -> TRUE
      [] o.t = "object" ->
            IF ProtoKey \in DOMAIN o.own THEN FALSE ELSE ReachesProtoSetter(o.proto)
      [] OTHER -> FALSE

\* result[key] = value on a plain object: __proto__ goes to the inherited
\* setter, which replaces the prototype by an object or null and ignores the rest
AssignProperty(obj, key, value) ==
    IF key = ProtoKey /\ ReachesProtoSetter(obj)
    THEN IF value.t \in {"object", "array", "null"}
         THEN [obj EXCEPT !.proto = value]
         ELSE obj
    ELSE [obj EXCEPT !.own = (key :> value) @@ @]

\* String(n) for n >= 0
RECURSIVE DecimalString(_)
DecimalString(n) ==
    IF n < 10 THEN <<HexDigits[n + 1]>>
    ELSE Append(DecimalString(n \div 10), HexDigits[(n % 10) + 1])

IsDigit(c) == HexVal(c) >= 0 /\ HexVal(c) <= 9 /\ c \notin {"A", "B", "C", "D", "E", "F"}

\* parseInt of a run of decimal digits
RECURSIVE DecimalValue(_)
DecimalValue(s) ==
    IF s = <<>> THEN 0
    ELSE DecimalValue(SubSeq(s, 1, Len(s) - 1)) * 10 + HexVal(Last(s))

\* value.match(/^(\d+)s$/)
MatchesSeconds(s) ==
    /\ Len(s) >= 2
    /\ Last(s) = "s"
    /\ \A i \in 1..(Len(s) - 1) : IsDigit(s[i])

TimeoutKey == <<"t", "i", "m", "e", "o", "u", "t">>

\* the revivers parse() is run with: the default (_, value) => value, and the
\* one of the test suite that turns "3s" under the key timeout into 3000
Revivers == {"identity", "seconds"}

Revive(rv, key, value) ==
    IF rv = "seconds" /\ key = TimeoutKey /\ value.t = "string" /\ MatchesSeconds(value.s)
    THEN Num(DecimalValue(SubSeq(value.s, 1, Len(value.s) - 1)) * 1000)
    ELSE value

\* a reviver call: its arguments and what it returned
Call(rv, key, value) == [key |-> key, value |-> value, result |-> Revive(rv, key, value)]

\* a fresh activation of sectionToValue
Section == [result |-> Null, currentKey |-> Undefined]

\* a tree builder that calls the reviver and keeps the value it was given
Store_KeepsValue(rv, frame, value) ==
    IF frame.result.t = "array"
    THEN [frame |-> [frame EXCEPT !.result.items = Append(@, value)],
          calls |-> <<Call(rv, DecimalString(Len(frame.result.items)), value)>>]
    ELSE IF frame.result.t = "object" /\ frame.currentKey.t # "undefined"
    THEN [frame |-> [result |-> AssignProperty(frame.result, frame.currentKey.s, value),
                     currentKey |-> Undefined],
          calls |-> <<Call(rv, frame.currentKey.s, value)>>]
    ELSE [frame |-> frame, calls |-> <<>>]

\* the if / else if that stores a value in result, with the reviver call it makes
Store(rv, frame, value) ==
    IF frame.result.t = "array"
    THEN [frame |-> [frame EXCEPT !.result.items =
                        Append(@, Revive(rv, DecimalString(Len(@)), value))],
          calls |-> <<Call(rv, DecimalString(Len(frame.result.items)), value)>>]
    ELSE IF frame.result.t = "object" /\ frame.currentKey.t # "undefined"
    THEN [frame |-> [result |-> AssignProperty(frame.result, frame.currentKey.s,
                                               Revive(rv, frame.currentKey.s, value)),
                     currentKey |-> Undefined],
          calls |-> <<Call(rv, frame.currentKey.s, value)>>]
    ELSE [frame |-> frame, calls |-> <<>>]

\* the documents parse() is run on
ParsePool ==
    { <<"a", " ", "=", " ", "b">>,
      <<"=", " ", "b">>,
      <<"=", " ", "c">>,
      <<"l", "i", "s", "t", "e", "n">>,
      <<" ", " ", "t", "i", "m", "e", "o", "u", "t", " ", "=", " ", "3", "s">>,
      <<" ", "a">>,
      <<"_", "_", "p", "r", "o", "t", "o", "_", "_", " ", "=", " ", "b">>,
      <<"a", " ", "=", " ", "\"", "b", "\"", " ", "c">>,
      <<"a", " ", "=", " ", "\"", "\\", "{", "-", "1", "}", "\"">>,
      <<"=", " ", "\"", "\\", "t", "\\", "{", "4", "1", "}", "\"", " ", ";", "c">>,
      <<"a", " ", "=", " ", "\"", "\"", "\"">>,
      <<"a", " ", " ", "b">>,
      <<"=", "\"", "b", "\\", "\"">>,
      <<"a", LS, "b">>,
      <<>> }

\* the tolerant tokenizer is not running
TokensIdle ==
    /\ pc = "idle"
    /\ lno = 0
    /\ lex = LexInit
    /\ queue = <<>>
    /\ raised = FALSE
    /\ states = <<>>
    /\ lastLine = 0
    /\ out = <<>>
    /\ yieldAt = "none"

\* parse(input, reviver) before the first token is pulled
ParseStart ==
    /\ reviver \in Revivers
    /\ ppc = "run"
    /\ tlno = 0
    /\ lastLno = -1
    /\ stack = <<[indent |-> <<>>, kind |-> ""]>>
    /\ tokensAt = "start"
    /\ tqueue = <<>>
    /\ failure = NoError
    /\ tout = <<>>
    /\ frames = <<Section>>
    /\ calls = <<>>
    /\ ret = Undefined

\* the state before parse pulls its first token, for a document of the set
InitParseOn(docs) ==
    /\ input \in docs
    /\ ParseStart
    /\ TokensIdle
    /\ UtilsIdle
    /\ OneGenerator

InitParse == InitParseOn(DocsOf(ParsePool, MaxLines))

\* tokenIterator.next() yields a token of the pass on a line
PullLine ==
    /\ ppc = "run" /\ tqueue = <<>>
    /\ \E r \in {TokensNext(stack, tlno, lastLno, tokensAt, SplitLines(input))} :
           /\ r.at \notin {"lastNull", "closing", "done", "thrown"}
           /\ stack' = r.stack
           /\ tlno' = r.lno
           /\ lastLno' = r.lastLno
           /\ tokensAt' = r.at
           /\ tqueue' = r.toks
    /\ UNCHANGED <<input, reviver, ppc, failure, tout, frames, calls, ret>>
    /\ UNCHANGED <<tvars, uvars, gvars>>

\* the tokenizer's while loop is over: tokenIterator.next() yields the last
\* null or a closing outdent, or reports done
PullEnd ==
    /\ ppc \in {"run", "drain"} /\ tqueue = <<>> /\ tokensAt # "done"
    /\ \E r \in {TokensNext(stack, tlno, lastLno, tokensAt, SplitLines(input))} :
           /\ r.at \in {"lastNull", "closing", "done"}
           /\ stack' = r.stack
           /\ tlno' = r.lno
           /\ lastLno' = r.lastLno
           /\ tokensAt' = r.at
           /\ tqueue' = r.toks
    /\ ppc' = "drain"
    /\ UNCHANGED <<input, reviver, failure, tout, frames, calls, ret>>
    /\ UNCHANGED <<tvars, uvars, gvars>>

\* tokenIterator.next() throws: the exception leaves parse()
ParseThrow ==
    /\ ppc = "run" /\ tqueue = <<>>
    /\ \E r \in {TokensNext(stack, tlno, lastLno, tokensAt, SplitLines(input))} :
           /\ r.at = "thrown"
           /\ stack' = r.stack
           /\ tlno' = r.lno
           /\ lastLno' = r.lastLno
           /\ tokensAt' = r.at
           /\ failure' = r.error
    /\ ppc' = "thrown"
    /\ UNCHANGED <<input, reviver, tqueue, tout, frames, calls, ret>>
    /\ UNCHANGED <<tvars, uvars, gvars>>

\* case "item"
OnItemToken ==
    /\ ppc \in {"run", "drain"} /\ tqueue # <<>> /\ Head(tqueue).kind = "item"
    /\ frames' = SetTop(frames, [Top(frames) EXCEPT !.result =
                                    IF @.t = "null" THEN EmptyArray ELSE @])
    /\ tout' = Append(tout, Head(tqueue))
    /\ tqueue' = Tail(tqueue)
    /\ UNCHANGED <<input, reviver, ppc, tlno, lastLno, stack, tokensAt, failure, calls, ret>>
    /\ UNCHANGED <<tvars, uvars, gvars>>

\* case "key"
OnKeyToken ==
    /\ ppc \in {"run", "drain"} /\ tqueue # <<>> /\ Head(tqueue).kind = "key"
    /\ frames' = SetTop(frames, [result |-> IF Top(frames).result.t = "null"
                                            THEN EmptyObject ELSE Top(frames).result,
                                 currentKey |-> Str(Head(tqueue).content)])
    /\ tout' = Append(tout, Head(tqueue))
    /\ tqueue' = Tail(tqueue)
    /\ UNCHANGED <<input, reviver, ppc, tlno, lastLno, stack, tokensAt, failure, calls, ret>>
    /\ UNCHANGED <<tvars, uvars, gvars>>

\* case "scalar", case "null"
OnValueToken ==
    /\ ppc \in {"run", "drain"} /\ tqueue # <<>> /\ Head(tqueue).kind \in {"scalar", "null"}
    /\ \E st \in {Store(reviver, Top(frames),
                        IF Head(tqueue).kind = "scalar" THEN Str(Head(tqueue).content)
                        ELSE Null)} :
           /\ frames' = SetTop(frames, st.frame)
           /\ calls' = calls \o st.calls
    /\ tout' = Append(tout, Head(tqueue))
    /\ tqueue' = Tail(tqueue)
    /\ UNCHANGED <<input, reviver, ppc, tlno, lastLno, stack, tokensAt, failure, ret>>
    /\ UNCHANGED <<tvars, uvars, gvars>>

\* case "indent": sectionToValue calls itself
OnIndentToken ==
    /\ ppc \in {"run", "drain"} /\ tqueue # <<>> /\ Head(tqueue).kind = "indent"
    /\ frames' = Append(frames, Section)
    /\ tout' = Append(tout, Head(tqueue))
    /\ tqueue' = Tail(tqueue)
    /\ UNCHANGED <<input, reviver, ppc, tlno, lastLno, stack, tokensAt, failure, calls, ret>>
    /\ UNCHANGED <<tvars, uvars, gvars>>

\* parse() after the outermost sectionToValue has returned result
Returned(rv, result) == Revive(rv, <<>>, IF result.t = "null" THEN EmptyObject ELSE result)

\* case "outdent": the activation returns its result, which the calling
\* activation stores; parse() takes the result of the outermost one
OnOutdentToken ==
    /\ ppc \in {"run", "drain"} /\ tqueue # <<>> /\ Head(tqueue).kind = "outdent"
    /\ IF Len(frames) > 1
       THEN \E st \in {Store(reviver, frames[Len(frames) - 1], Top(frames).result)} :
                /\ frames' = SetTop(Pop(frames), st.frame)
                /\ calls' = calls \o st.calls
                /\ UNCHANGED <<ppc, ret>>
       ELSE /\ frames' = <<>>
            /\ calls' = Append(calls, Call(reviver, <<>>,
                                           IF Top(frames).result.t = "null" THEN EmptyObject
                                           ELSE Top(frames).result))
            /\ ret' = Returned(reviver, Top(frames).result)
            /\ ppc' = "returned"
    /\ tout' = Append(tout, Head(tqueue))
    /\ tqueue' = Tail(tqueue)
    /\ UNCHANGED <<input, reviver, tlno, lastLno, stack, tokensAt, failure>>
    /\ UNCHANGED <<tvars, uvars, gvars>>

\* next() reports done: the loop breaks, the activation returns its result
OnDone ==
    /\ ppc = "drain" /\ tqueue = <<>> /\ tokensAt = "done"
    /\ IF Len(frames) > 1
       THEN \E st \in {Store(reviver, frames[Len(frames) - 1], Top(frames).result)} :
                /\ frames' = SetTop(Pop(frames), st.frame)
                /\ calls' = calls \o st.calls
                /\ UNCHANGED <<ppc, ret>>
       ELSE /\ frames' = <<>>
            /\ calls' = Append(calls, Call(reviver, <<>>,
                                           IF Top(frames).result.t = "null" THEN EmptyObject
                                           ELSE Top(frames).result))
            /\ ret' = Returned(reviver, Top(frames).result)
            /\ ppc' = "returned"
    /\ UNCHANGED <<input, reviver, tlno, lastLno, stack, tokensAt, tqueue, failure, tout>>
    /\ UNCHANGED <<tvars, uvars, gvars>>

NextParse ==
    \/ PullLine
    \/ PullEnd
    \/ ParseThrow
    \/ OnItemToken
    \/ OnKeyToken
    \/ OnValueToken
    \/ OnIndentToken
    \/ OnOutdentToken
    \/ OnDone

SpecParse == InitParse /\ [][NextParse]_vars

----------------------------------------------------------------------------
(* Reading the token stream *)

KeyKinds == {"ListItem", "MapKey"}

\* tokens() has returned or has thrown: the stream is complete
Terminated == pc \in {"done", "thrown"}

\* how many of the first n tokens have the kind
CountKind(s, n, k) == Cardinality({i \in 1..n : s[i].kind = k})

\* nesting depth after the first n tokens
DepthAfter(s, n) == CountKind(s, n, "Indent") - CountKind(s, n, "Outdent")

\* index of the first token after i that is not a Comment, 0 if there is none
NextReal(s, i) ==
    IF \E j \in (i + 1)..Len(s) : s[j].kind # "Comment"
    THEN CHOOSE j \in (i + 1)..Len(s) :
            /\ s[j].kind # "Comment"
            /\ \A m \in (i + 1)..(j - 1) : s[m].kind = "Comment"
    ELSE 0

\* index of the last token before i that is not a Comment, 0 if there is none
PrevReal(s, i) ==
    IF \E j \in 1..(i - 1) : s[j].kind # "Comment"
    THEN CHOOSE j \in 1..(i - 1) :
            /\ s[j].kind # "Comment"
            /\ \A m \in (j + 1)..(i - 1) : s[m].kind = "Comment"
    ELSE 0

\* tokens i < j lie in the same section: same depth, and the stream does not
\* leave that depth in between
SameSection(s, i, j) ==
    /\ DepthAfter(s, i) = DepthAfter(s, j)
    /\ \A m \in i..j : DepthAfter(s, m) >= DepthAfter(s, i)

----------------------------------------------------------------------------
(* Claims on the tolerant token stream *)

\* C1: in the stream of tokens(), no prefix holds more Outdent than Indent tokens,
\* and the complete stream holds as many Outdent as Indent tokens.
C1_IndentOutdentPaired ==
    /\ \A n \in 0..Len(out) : DepthAfter(out, n) >= 0
    /\ Terminated => DepthAfter(out, Len(out)) = 0

\* C2: the first token that is not a Comment after a ListItem or MapKey exists
\* in the complete stream and is a Scalar, MultilineHint, NoValue or Indent.
C2_KeyFollowedByValue ==
    \A i \in 1..Len(out) :
        out[i].kind \in KeyKinds =>
            /\ NextReal(out, i) # 0 =>
                  out[NextReal(out, i)].kind \in {"Scalar", "MultilineHint", "NoValue", "Indent"}
            /\ Terminated => NextReal(out, i) # 0

\* C3: the ListItem and MapKey tokens of one section, error-tagged ones
\* included, all have the same kind.
C3_SectionOneKind ==
    \A i, j \in 1..Len(out) :
        (/\ i < j
         /\ out[i].kind \in KeyKinds
         /\ out[j].kind \in KeyKinds
         /\ SameSection(out, i, j)) => out[i].kind = out[j].kind

\* C4: tokens() never throws; it runs to the end of the input.
C4_NeverThrows == pc # "thrown" /\ ~raised

\* C5: the first token that is not a Comment after a MultilineHint is a
\* MultilineScalar, present in the complete stream, and every MultilineScalar
\* has a MultilineHint as the last token before it that is not a Comment.
C5_HintThenMultilineScalar ==
    /\ \A i \in 1..Len(out) :
          out[i].kind = "MultilineHint" =>
              /\ NextReal(out, i) # 0 => out[NextReal(out, i)].kind = "MultilineScalar"
              /\ Terminated => NextReal(out, i) # 0
    /\ \A j \in 1..Len(out) :
          out[j].kind = "MultilineScalar" =>
              /\ PrevReal(out, j) # 0
              /\ out[PrevReal(out, j)].kind = "MultilineHint"

\* a stream in which a hint, its comment and its block's text follow each other
C5_Witness ==
    /\ pc = "done"
    /\ \E i \in 1..Len(out) :
          /\ i + 2 <= Len(out)
          /\ out[i].kind = "MultilineHint"
          /\ out[i + 1].kind = "Comment"
          /\ out[i + 2].kind = "MultilineScalar"
          /\ out[i + 2].error = ""

----------------------------------------------------------------------------
(* Multiline blocks, read off the input text *)

InputLines == lines(input)

IndentOf(line) == SubSeq(line, 1, LeadWs(line))

Blank(line) == LeadWs(line) = Len(line)

\* ind is strictly more indented than sec
Extends(ind, sec) == StartsWith(ind, sec) /\ ind # sec

\* the first body line of the block opened on line h: the first later line
\* whose indentation extends that of line h, only blank lines lying between;
\* 0 when the block has no body
FirstBody(h) ==
    IF \E f \in (h + 1)..Len(InputLines) :
          /\ Extends(IndentOf(InputLines[f]), IndentOf(InputLines[h]))
          /\ \A m \in (h + 1)..(f - 1) :
                /\ Blank(InputLines[m])
                /\ ~Extends(IndentOf(InputLines[m]), IndentOf(InputLines[h]))
    THEN CHOOSE f \in (h + 1)..Len(InputLines) :
          /\ Extends(IndentOf(InputLines[f]), IndentOf(InputLines[h]))
          /\ \A m \in (h + 1)..(f - 1) : ~Extends(IndentOf(InputLines[m]), IndentOf(InputLines[h]))
    ELSE 0

\* line m belongs to a block of prefix p
BodyLine(m, p) == StartsWith(InputLines[m], p) \/ Blank(InputLines[m])

\* the last line of the block whose first body line is f
LastBody(f) ==
    CHOOSE e \in f..Len(InputLines) :
        /\ \A m \in f..e : BodyLine(m, IndentOf(InputLines[f]))
        /\ e < Len(InputLines) => ~BodyLine(e + 1, IndentOf(InputLines[f]))

\* the body lines of that block, prefix removed, joined by "\n"
BodyText(f) ==
    JoinLines([k \in 1..(LastBody(f) - f + 1) |->
                  IF StartsWith(InputLines[f + k - 1], IndentOf(InputLines[f]))
                  THEN From(InputLines[f + k - 1], Len(IndentOf(InputLines[f])))
                  ELSE <<>>])

TrailingWs == {" ", "\t", "\r", "\n"}

\* t is text with the white space at its end, and nothing else, removed
TrimmedAtEnd(t, text) ==
    /\ StartsWith(text, t)
    /\ \A k \in (Len(t) + 1)..Len(text) : text[k] \in TrailingWs
    /\ t # <<>> => Last(t) \notin TrailingWs

\* C10: a block with a body yields a MultilineScalar on the line of its first
\* body line whose content is the body lines, prefix removed, joined by "\n",
\* with white space removed at the end of the text only.
C10_MultilineContent ==
    \A j \in 1..Len(out) :
        (/\ out[j].kind = "MultilineScalar"
         /\ PrevReal(out, j) # 0
         /\ FirstBody(out[PrevReal(out, j)].lno) # 0) =>
            /\ out[j].lno = FirstBody(out[PrevReal(out, j)].lno)
            /\ TrimmedAtEnd(out[j].content, BodyText(out[j].lno))

\* the line that ends the block opened on line h if a block ends at the first
\* line, not blank, that is not more indented than line h: that line's number,
\* one past the last line when there is none
MarkerEnd(h) ==
    IF \E e \in (h + 1)..Len(InputLines) :
          ~Blank(InputLines[e]) /\ ~Extends(IndentOf(InputLines[e]), IndentOf(InputLines[h]))
    THEN CHOOSE e \in (h + 1)..Len(InputLines) :
          /\ ~Blank(InputLines[e]) /\ ~Extends(IndentOf(InputLines[e]), IndentOf(InputLines[h]))
          /\ \A m \in (h + 1)..(e - 1) :
                Blank(InputLines[m]) \/ Extends(IndentOf(InputLines[m]), IndentOf(InputLines[h]))
    ELSE Len(InputLines) + 1

\* token j is the only token read from the lines a..b (a NoValue or Outdent
\* stands for no text; it may carry the number of the last line read before it)
OnlyTokenOf(j, a, b) ==
    \A k \in 1..Len(out) :
        (k # j /\ out[k].kind \notin {"NoValue", "Outdent"}) => out[k].lno \notin a..b

\* C11: the block of a marker on line h takes every line up to the first
\* line, not blank, that is not more indented than line h: no token but the
\* block's MultilineScalar comes from those lines, and in the complete stream
\* the token after the MultilineScalar comes from the line that ends the block.
C11_EndsAtMarkerIndent ==
    \A j \in 1..Len(out) :
        (/\ out[j].kind = "MultilineScalar"
         /\ PrevReal(out, j) # 0
         /\ FirstBody(out[PrevReal(out, j)].lno) # 0) =>
            /\ OnlyTokenOf(j, out[PrevReal(out, j)].lno + 1,
                           MarkerEnd(out[PrevReal(out, j)].lno) - 1)
            /\ (pc = "done" /\ MarkerEnd(out[PrevReal(out, j)].lno) <= Len(InputLines)) =>
                  /\ j < Len(out)
                  /\ out[j + 1].lno = MarkerEnd(out[PrevReal(out, j)].lno)

\* the first line after line h that is not blank, 0 when only blank lines follow
FirstNonBlank(h) ==
    IF \E g \in (h + 1)..Len(InputLines) : ~Blank(InputLines[g])
    THEN CHOOSE g \in (h + 1)..Len(InputLines) :
          /\ ~Blank(InputLines[g])
          /\ \A m \in (h + 1)..(g - 1) : Blank(InputLines[m])
    ELSE 0

\* the marker on line h is followed, blank lines skipped, by the end of the
\* input or by a line that is not more indented than line h
NoBodyFollows(h) ==
    \/ FirstNonBlank(h) = 0
    \/ ~Extends(IndentOf(InputLines[FirstNonBlank(h)]), IndentOf(InputLines[h]))

\* C12: in the complete stream, a marker followed, blank lines skipped, by the
\* end of the input or by a line that is not more indented than the section
\* yields one MultilineScalar with empty content and the error `missing
\* multiline value` on the marker's line, and the tokens of the offending line
\* follow it.
C12_MissingMultilineValue ==
    pc = "done" =>
        \A i \in 1..Len(out) :
            (out[i].kind = "MultilineHint" /\ NoBodyFollows(out[i].lno)) =>
                \E j \in {NextReal(out, i)} :
                    /\ j # 0
                    /\ out[j].kind = "MultilineScalar"
                    /\ out[j].content = <<>>
                    /\ out[j].error = "missing multiline value"
                    /\ out[j].lno = out[i].lno
                    /\ FirstNonBlank(out[i].lno) # 0 =>
                          /\ j < Len(out)
                          /\ out[j + 1].lno = FirstNonBlank(out[i].lno)
                          /\ out[j + 1].kind # "MultilineScalar"

----------------------------------------------------------------------------
(* Reading parse(): the document, the tokens pulled, the reviver calls      *)

ParseTerminated == ppc \in {"returned", "thrown"}

Quote == "\""

\* the first `"` of a quoted literal that is not escaped closes it; the
\* 0-based index of that quote, -1 when there is none
ClosingAt(lit) == ClosingQuote(lit, 1, FALSE)

\* a run of 1 to 8 hexadecimal digits naming a Unicode scalar value
ValidHex(hex) ==
    /\ Len(hex) \in 1..8
    /\ \A i \in 1..Len(hex) : HexVal(hex[i]) >= 0
    /\ HexPrefix(hex, 0, 0).val <= 1114111
    /\ ~(HexPrefix(hex, 0, 0).val >= 55296 /\ HexPrefix(hex, 0, 0).val <= 57343)

\* the text between the quotes holds, from the 0-based index i on, an escape
\* other than \n \r \t \" \\ and \{HEX}
RECURSIVE HasInvalidEscape(_, _)
HasInvalidEscape(inner, i) ==
    LET brace(closeIndex) ==
            IF closeIndex < 0 THEN TRUE
            ELSE IF ~ValidHex(Substring(inner, i + 2, closeIndex)) THEN TRUE
            ELSE HasInvalidEscape(inner, closeIndex + 1)
    IN  IF i >= Len(inner) THEN FALSE
        ELSE IF inner[i + 1] # "\\" THEN HasInvalidEscape(inner, i + 1)
        ELSE IF i + 1 >= Len(inner) THEN TRUE
        ELSE IF inner[i + 2] \in {"n", "r", "t", "\"", "\\"} THEN HasInvalidEscape(inner, i + 2)
        ELSE IF inner[i + 2] = "{" THEN brace(IndexOfFrom(inner, "}", i + 2))
        ELSE TRUE

\* what is wrong with a literal, "" when nothing is
LiteralDefect(lit) ==
    IF ~StartsWith(lit, <<Quote>>) THEN ""
    ELSE IF ClosingAt(lit) = -1 THEN "unclosed quotes"
    ELSE IF ClosingAt(lit) # Len(lit) - 1 THEN "characters after quotes"
    ELSE IF HasInvalidEscape(SubSeq(lit, 2, Len(lit) - 1), 0) THEN "invalid escape code"
    ELSE ""

\* the line after line l (0-based) that is not empty is missing or is not
\* indented more than line l
NoMultilineBody(lns, l) ==
    LET after(k) ==
            \/ k + 1 = Len(lns)
            \/ ~Extends(lns[k + 2].indent, lns[l + 1].indent)
    IN  after(SkipEmpty(lns, l))

\* the defects of the key literal and the value of the line the throwing
\* tokenizer is about to read, by their descriptions
LineDefects ==
    LET lns == SplitLines(input)
        of(m) ==
            IF ~m.ok THEN {}
            ELSE ({LiteralDefect(m.key)}
                    \cup (IF IsMultilineMarker(m.tail)
                          THEN (IF NoMultilineBody(lns, tlno)
                                THEN {"missing multiline value"} ELSE {})
                          ELSE {LiteralDefect(m.tail)})) \ {""}
    IN  IF tlno >= Len(lns) THEN {}
        ELSE IF lns[tlno + 1].content = <<>> \/ Head(lns[tlno + 1].content) = ";" THEN {}
        ELSE of(SPLIT_LINE(lns[tlno + 1].content))

StructureDefects == {"unexpected indent", "unexpected list item", "unexpected map key"}

RealLines ==
    {i \in 1..Len(InputLines) :
        /\ ~Blank(InputLines[i])
        /\ InputLines[i][LeadWs(InputLines[i]) + 1] # ";"}

\* the real lines with no indentation
TopLines == {i \in RealLines : LeadWs(InputLines[i]) = 0}

\* the first real line is indented
FirstLineIndented ==
    /\ RealLines # {}
    /\ LeadWs(InputLines[CHOOSE i \in RealLines : \A j \in RealLines : i <= j]) > 0

\* a line that starts with `=` and a line that does not, both without indentation
TopLevelMixed ==
    \E i, j \in TopLines : InputLines[i][1] = "=" /\ InputLines[j][1] # "="

\* C7 as stated: parse returns a tree for every input and never aborts.
C7_NeverAborts == ppc # "thrown"

\* C7 as the code has it: parse returns a tree only if the tokenizer it pulls
\* from threw nothing; when the tokenizer throws, the exception leaves parse,
\* which then returns nothing; a document whose first entry is indented, or
\* whose top level mixes list items and map keys, is never turned into a tree.
C7_AbortsOnMalformed ==
    /\ ppc = "thrown" => (failure # NoError /\ ret = Undefined)
    /\ ppc = "returned" => (failure = NoError /\ ret.t \in {"object", "array"})
    /\ ppc = "returned" => ~(FirstLineIndented \/ TopLevelMixed)

C7_Witness ==
    /\ ppc = "thrown"
    /\ TopLevelMixed
    /\ failure.text = "unexpected list item"
    /\ calls # <<>>
    /\ ret = Undefined

----------------------------------------------------------------------------
(* The tree a document without quotes stands for, read off its lines        *)

\* the k-th smallest element of a set of numbers
Nth(S, k) == CHOOSE p \in S : Cardinality({q \in S : q < p}) = k - 1

\* the real lines in order
RealSeq == [k \in 1..Cardinality(RealLines) |-> Nth(RealLines, k)]

IndentAt(k) == IndentOf(InputLines[RealSeq[k]])

\* the text of a real line: indentation, comment and trailing white space removed
TextAt(k) ==
    LET cut(t) == IF IndexOf(t, ";") >= 0 THEN Substring(t, 0, IndexOf(t, ";")) ELSE t
    IN  TrimEnd(cut(From(InputLines[RealSeq[k]], LeadWs(InputLines[RealSeq[k]]))))

\* the key is the text before the first `=`, the value the text after it
KeyAt(k) ==
    IF IndexOf(TextAt(k), "=") >= 0
    THEN TrimEnd(Substring(TextAt(k), 0, IndexOf(TextAt(k), "=")))
    ELSE TextAt(k)

ValueAt(k) ==
    LET after(t) == From(t, LeadWs(t))
    IN  IF IndexOf(TextAt(k), "=") >= 0
        THEN after(From(TextAt(k), IndexOf(TextAt(k), "=") + 1))
        ELSE <<>>

IsItemAt(k) == KeyAt(k) = <<>>

\* the entries of the section that spans the real lines i .. j
EntriesOf(i, j) == {k \in i..j : IndentAt(k) = IndentAt(i)}

\* the last real line of the entry at k in the section i .. j
EntryEnd(i, j, k) ==
    IF \E e \in EntriesOf(i, j) : e > k
    THEN (CHOOSE e \in EntriesOf(i, j) : e > k /\ \A f \in EntriesOf(i, j) : f > k => e <= f) - 1
    ELSE j

\* the real lines i .. j form a section: every line at or under the
\* indentation of the first, entries of one kind, nested lines only under an
\* entry without a value, and each nested run a section itself
RECURSIVE WellFormedSection(_, _)
WellFormedSection(i, j) ==
    /\ \A k \in i..j : StartsWith(IndentAt(k), IndentAt(i))
    /\ \A e, f \in EntriesOf(i, j) : IsItemAt(e) = IsItemAt(f)
    /\ \A e \in EntriesOf(i, j) :
          EntryEnd(i, j, e) > e
              => (ValueAt(e) = <<>> /\ WellFormedSection(e + 1, EntryEnd(i, j, e)))

\* the value of the section that spans the real lines i .. j
RECURSIVE SectionValue(_, _)
SectionValue(i, j) ==
    LET entries == EntriesOf(i, j)
        valueOf(e) ==
            IF EntryEnd(i, j, e) > e THEN SectionValue(e + 1, EntryEnd(i, j, e))
            ELSE IF ValueAt(e) # <<>> THEN Str(ValueAt(e))
            ELSE Null
        lastOf(key) == CHOOSE e \in entries : KeyAt(e) = key
                                 /\ \A f \in entries : KeyAt(f) = key => f <= e
    IN  IF IsItemAt(i)
        THEN [t |-> "array",
              items |-> [n \in 1..Cardinality(entries) |-> valueOf(Nth(entries, n))]]
        ELSE [t |-> "object",
              own |-> [key \in {KeyAt(e) : e \in entries} |-> valueOf(lastOf(key))],
              proto |-> ObjectPrototype]

\* a document with at least one entry, no quoted literal and no multiline
\* block, whose lines form one section without indentation
PlainWellFormed ==
    /\ RealLines # {}
    /\ \A i \in 1..Len(input) : input[i] # Quote
    /\ IndentAt(1) = <<>>
    /\ WellFormedSection(1, Cardinality(RealLines))

\* C8: for a well-formed document parse returns the Map or List its lines
\* stand for: a Map of the top-level keys, each with its scalar, null or the
\* value of its nested section, or a List of the top-level items in order.
C8_ParseBuildsTree ==
    (ParseTerminated /\ reviver = "identity" /\ PlainWellFormed)
        => (ppc = "returned" /\ ret = SectionValue(1, Cardinality(RealLines)))

----------------------------------------------------------------------------
(* The reviver calls against the tokens pulled                              *)

\* nesting depth after the first n tokens pulled
Level(n) ==
    Cardinality({i \in 1..n : tout[i].kind = "indent"})
        - Cardinality({i \in 1..n : tout[i].kind = "outdent"})

\* the tokens that hand a value to a section: a scalar, a null, and the
\* outdent that closes a nested section
ValuePositions == {p \in 1..Len(tout) : tout[p].kind \in {"scalar", "null", "outdent"}}

\* the call made for the value at position p
CallAt(p) == calls[Cardinality({q \in ValuePositions : q <= p})]

\* the values handed to the section that receives the value at p, before p
EarlierInSection(p) ==
    {q \in ValuePositions :
        q < p /\ Level(q) = Level(p) /\ \A r \in q..p : Level(r) >= Level(p)}

\* the values of the section closed by the outdent at p; of the document for
\* p = Len(tout) + 1
ChildrenOf(p) ==
    {q \in ValuePositions :
        q < p /\ Level(q) = Level(p - 1) /\ \A r \in q..(p - 1) : Level(r) >= Level(p - 1)}

\* the key or item token the value at p belongs to
EntryOf(p) ==
    CHOOSE r \in 1..p : /\ tout[r].kind \in {"key", "item"}
                        /\ Level(r) = Level(p)
                        /\ \A s \in (r + 1)..p :
                              ~(tout[s].kind \in {"key", "item"} /\ Level(s) = Level(p))

\* the key the value at p is revived with: its map key, or its list index
KeyFor(p) ==
    IF tout[EntryOf(p)].kind = "key" THEN tout[EntryOf(p)].content
    ELSE DecimalString(Cardinality(EarlierInSection(p)))

\* a section value holds what the reviver returned for its children: the
\* elements of a list are the results in order, a property of a map is the
\* result of the last call with its key
Assembled(v, children) ==
    /\ v.t \in {"object", "array"}
    /\ v.t = "array" =>
          v.items = [n \in 1..Cardinality(children) |-> CallAt(Nth(children, n)).result]
    /\ v.t = "object" =>
          \A key \in DOMAIN v.own :
              \E q \in children :
                  /\ CallAt(q).key = key
                  /\ \A r \in children : CallAt(r).key = key => r <= q
                  /\ v.own[key] = CallAt(q).result

\* C9: the reviver is called once for each value in the order the values are
\* completed (a scalar or null where it stands, a nested section when it
\* closes, so after all its children), with the map key or the decimal list
\* index; what a section holds are the results of the calls for its children;
\* the last call has the key "" and the assembled root, and its result is
\* what parse returns.
C9_ReviverCalls ==
    /\ Len(calls) = Cardinality(ValuePositions) + (IF ppc = "returned" THEN 1 ELSE 0)
    /\ \A p \in ValuePositions :
          /\ CallAt(p).key = KeyFor(p)
          /\ CallAt(p).result = Revive(reviver, KeyFor(p), CallAt(p).value)
          /\ tout[p].kind = "scalar" => CallAt(p).value = Str(tout[p].content)
          /\ tout[p].kind = "null" => CallAt(p).value = Null
          /\ tout[p].kind = "outdent" => Assembled(CallAt(p).value, ChildrenOf(p))
    /\ ppc = "returned" =>
          /\ calls[Len(calls)].key = <<>>
          /\ Assembled(calls[Len(calls)].value, ChildrenOf(Len(tout) + 1))
          /\ ret = Revive(reviver, <<>>, calls[Len(calls)].value)
          /\ ret = calls[Len(calls)].result

C9_Witness ==
    /\ ppc = "returned"
    /\ reviver = "seconds"
    /\ Len(calls) = 3
    /\ calls[1] = [key |-> TimeoutKey, value |-> Str(<<"3", "s">>), result |-> Num(3000)]
    /\ calls[2].key = <<"l", "i", "s", "t", "e", "n">>
    /\ calls[2].value.own[TimeoutKey] = Num(3000)
    /\ ret.own[<<"l", "i", "s", "t", "e", "n">>] = calls[2].result

----------------------------------------------------------------------------
(* The functions of utils.ts called on their own *)

MaxPieces == 2

MaxChars == 4

\* every concatenation of at most n pieces
RECURSIVE Concats(_, _)
Concats(pieces, n) ==
    IF n = 0 THEN {<<>>}
    ELSE {<<>>} \cup {p \o t : p \in pieces, t \in Concats(pieces, n - 1)}

\* what may stand between the quotes of a literal
LiteralPieces ==
    { <<"a">>,
      <<" ", "c">>,
      <<"\"">>,
      <<"\\">>,
      <<"\\", "n">>,
      <<"\\", "r">>,
      <<"\\", "t">>,
      <<"\\", "\"">>,
      <<"\\", "\\">>,
      <<"\\", "x">>,
      <<"\\", "{", "4", "1", "}">>,
      <<"\\", "{", "0", "0", "0", "0", "0", "0", "6", "1", "}">>,
      <<"\\", "{", "1", "0", "F", "F", "F", "F", "}">>,
      <<"\\", "{", "}">>,
      <<"\\", "{", "4", "1">>,
      <<"\\", "{", "0", "0", "0", "0", "0", "0", "0", "6", "1", "}">>,
      <<"\\", "{", "1", "g", "}">>,
      <<"\\", "{", "-", "1", "}">>,
      <<"\\", "{", " ", "6", "1", "}">>,
      <<"\\", "{", "D", "8", "0", "0", "}">>,
      <<"\\", "{", "1", "1", "0", "0", "0", "0", "}">>,
      <<"\\", "{", FF, "4", "1", "}">>,
      <<"\\", LS>>,
      <<LS>> }

\* literals: pieces, with or without a quote before them and a quote after them
Literals ==
    {pre \o mid \o post : pre \in {<<>>, <<"\"">>},
                          mid \in Concats(LiteralPieces, MaxPieces),
                          post \in {<<>>, <<"\"">>}}

\* texts with line breaks
Texts == UNION {[1..k -> {"a", " ", "\r", "\n", LS}] : k \in 0..MaxChars}

\* before a utility function is called on input
InitUtils ==
    /\ input \in Literals \cup Texts
    /\ ufn = ""
    /\ ures = <<>>
    /\ TokensIdle
    /\ ParseIdle
    /\ OneGenerator

\* [...lines(input)]: the pairs [lno, text] in the order they are yielded
CallLines ==
    /\ ufn = ""
    /\ ufn' = "lines"
    /\ ures' = [n \in 1..Len(lines(input)) |-> <<n, lines(input)[n]>>]
    /\ UNCHANGED <<input, tvars, pvars, gvars>>

\* decodeLiteral(input)
CallDecodeLiteral ==
    /\ ufn = ""
    /\ ufn' = "decodeLiteral"
    /\ ures' = decodeLiteral(input)
    /\ UNCHANGED <<input, tvars, pvars, gvars>>

NextUtils ==
    \/ CallLines
    \/ CallDecodeLiteral

SpecUtils == InitUtils /\ [][NextUtils]_vars

----------------------------------------------------------------------------
(* Claims on the literal decoder of utils.ts *)

\* the text between the quotes of a quoted literal
Inner(lit) == SubSeq(lit, 2, Len(lit) - 1)

\* a quoted literal with its closing quote at the end and no invalid escape
WellFormedQuoted(lit) == StartsWith(lit, <<Quote>>) /\ LiteralDefect(lit) = ""

\* the characters the text between the quotes of a well-formed literal stands
\* for, from the 0-based index i on
RECURSIVE Denoted(_, _)
Denoted(inner, i) ==
    LET code(closeIndex) ==
            <<fromCodePoint(HexPrefix(Substring(inner, i + 2, closeIndex), 0, 0).val)>>
                \o Denoted(inner, closeIndex + 1)
    IN  IF i >= Len(inner) THEN <<>>
        ELSE IF inner[i + 1] # "\\" THEN <<inner[i + 1]>> \o Denoted(inner, i + 1)
        ELSE CASE inner[i + 2] = "n" -> <<"\n">> \o Denoted(inner, i + 2)
               [] inner[i + 2] = "r" -> <<"\r">> \o Denoted(inner, i + 2)
               [] inner[i + 2] = "t" -> <<"\t">> \o Denoted(inner, i + 2)
               [] inner[i + 2] = "{" -> code(IndexOfFrom(inner, "}", i + 2))
               [] OTHER -> <<inner[i + 2]>> \o Denoted(inner, i + 2)

\* C13: decodeLiteral returns a literal that does not start with a quote as it
\* is, without error, and for a well-formed quoted literal the text between the
\* quotes with every escape replaced by the character it stands for and every
\* other character copied in order, without error.
C13_DecodesLiteral ==
    ufn = "decodeLiteral" =>
        /\ ~StartsWith(input, <<Quote>>) =>
              /\ ~ures.thrown
              /\ ures.error = ""
              /\ ures.content = input
        /\ WellFormedQuoted(input) =>
              /\ ~ures.thrown
              /\ ures.error = ""
              /\ ures.content = Denoted(Inner(input), 0)

\* a quoted literal of a tab escape and a brace escape, decoded
C13_Witness ==
    /\ ufn = "decodeLiteral"
    /\ input = <<"\"", "\\", "t", "\\", "{", "4", "1", "}", "\"">>
    /\ ures.content = <<"\t", "A">>
    /\ ures.error = ""

\* a quoted literal whose first quote that is not escaped is its last character
ClosedQuoted(lit) == StartsWith(lit, <<Quote>>) /\ ClosingAt(lit) = Len(lit) - 1

\* C14: for a quoted literal closed by its last character, decodeLiteral
\* reports `invalid escape code` exactly when the text between the quotes holds
\* an escape other than \n \r \t \" \\ and a brace escape of 1 to 8 hexadecimal
\* digits naming a code point up to 10FFFF outside D800..DFFF.
C14_EscapesAccepted ==
    (ufn = "decodeLiteral" /\ ClosedQuoted(input)) =>
        /\ ~ures.thrown
        /\ ures.error = "invalid escape code" <=> HasInvalidEscape(Inner(input), 0)
        /\ ures.error \in {"", "invalid escape code"}

\* C15: for a literal that starts with a quote, decodeLiteral reports `unclosed
\* quotes` exactly when no later quote is free of an escaping backslash, and
\* `characters after quotes` exactly when the first such quote is not the last
\* character.
C15_QuoteErrors ==
    (ufn = "decodeLiteral" /\ StartsWith(input, <<Quote>>)) =>
        /\ ures.error = "unclosed quotes" <=> ClosingAt(input) = -1
        /\ ures.error = "characters after quotes" <=>
              (ClosingAt(input) # -1 /\ ClosingAt(input) # Len(input) - 1)

----------------------------------------------------------------------------
(* Map lines: tokens() on documents of one map line *)

KeyTexts ==
    { <<>>,
      <<"a">>,
      <<"a", " ", "b">>,
      <<"\"", "a", "\"">>,
      <<"\"", "a", "=", "b", "\"">>,
      <<"\"", "a", ";", "b", "\"">>,
      <<"\"", "a", "\\", "\"", "=", "b", "\"">>,
      <<"\"", "a", "\"", " ", "x">>,
      <<"\"", "a">>,
      <<"a", FF>>,
      <<"a", LS, "b">> }

Separators ==
    { <<>>,
      <<" ">>,
      <<"=">>,
      <<" ", "=", " ">>,
      <<" ", " ", "=", "\t">>,
      <<";">>,
      <<" ", ";">>,
      <<" ", "=", " ", "=", " ">> }

ValueTexts ==
    { <<>>,
      <<"b">>,
      <<"=", " ", "=", " ", "=">>,
      <<"b", " ", ";", "c">>,
      <<"\"", "b", ";", "=", "c", "\"", " ", ";", "c">>,
      <<"\"", "\\", "{", "-", "1", "}", "\"">>,
      <<"b", " ", ";", " ", "c">>,
      <<"\"", "\\", "{", "-", "1", "}", "\"", " ", ";", "c">>,
      <<"\"", "\"", "\"", "h">> }

\* one line: a key, a separator and a value, indented or not
KeyLines ==
    {ind \o k \o sep \o v : ind \in {<<>>, <<" ">>}, k \in KeyTexts,
                            sep \in Separators, v \in ValueTexts}

\* the documents of one such line, alone or followed by the line `a`
KeyDocs == KeyLines \cup {l \o <<"\n", "a">> : l \in KeyLines}

InitKeys == InitOn(KeyDocs)

SpecKeys == InitKeys /\ [][Next]_vars

\* the 0-based index of the first `=` or `;` of t at or after i, Len(t) if none
RECURSIVE FirstOfIn(_, _, _)
FirstOfIn(t, seps, i) ==
    IF i >= Len(t) THEN Len(t)
    ELSE IF t[i + 1] \in seps THEN i
    ELSE FirstOfIn(t, seps, i + 1)

\* the 0-based index after the quoted span t starts with: after its closing
\* quote, the end of t when the span is not closed, 0 when t starts without quote
SpanEnd(t) ==
    IF ~StartsWith(t, <<Quote>>) THEN 0
    ELSE IF ClosingAt(t) = -1 THEN Len(t)
    ELSE ClosingAt(t) + 1

\* where the literal t starts with ends: at the first of seps outside the
\* leading quoted span
LiteralEnd(t, seps) == FirstOfIn(t, seps, SpanEnd(t))

\* the literal t starts with, white space at its end removed
LiteralOf(t, seps) == TrimEnd(SubSeq(t, 1, LiteralEnd(t, seps)))

\* line l without its indentation
RestOf(l) == From(InputLines[l], LeadWs(InputLines[l]))

\* t without its leading spaces and tabs
LeftTrimmed(t) == From(t, LeadWs(t))

\* the text of the value of map line l: what follows the first `=` after the
\* key, white space before it removed; empty when the key is not followed by `=`
ValueTextOf(l) ==
    IF LiteralEnd(RestOf(l), {"=", ";"}) < Len(RestOf(l))
       /\ RestOf(l)[LiteralEnd(RestOf(l), {"=", ";"}) + 1] = "="
    THEN LeftTrimmed(From(RestOf(l), LiteralEnd(RestOf(l), {"=", ";"}) + 1))
    ELSE <<>>

\* the value text holds a literal to decode: it is not empty, no comment and no
\* multiline marker
HoldsScalar(v) ==
    /\ v # <<>>
    /\ Head(v) # ";"
    /\ ~StartsWith(v, <<Quote, Quote, Quote>>)

\* line l holds a map entry: it is not blank, no comment and no list item
MapLine(l) == RestOf(l) # <<>> /\ Head(RestOf(l)) \notin {";", "="}

\* the errors the validator attaches to tokens of its own
StructureErrors == {"unexpected indent", "unexpected list item", "unexpected map key"}

\* C16: a document whose first line is a map line yields a MapKey for it, and
\* the MapKey of a map line carries the decoded text of the line up to the
\* first `=` or `;` outside a leading quoted span, white space at its end
\* removed; only that first `=` is dropped, and the Scalar after the key
\* carries the decoded text after it up to the first `;` outside a leading
\* quoted span, later `=` included.
C16_KeyEndsAtFirstSeparator ==
    /\ (pc = "done" /\ MapLine(1)) =>
          \E i \in 1..Len(out) :
              out[i].kind = "MapKey" /\ out[i].lno = 1 /\ out[i].error \notin StructureErrors
    /\ \A i \in 1..Len(out) :
           (out[i].kind = "MapKey" /\ out[i].error \notin StructureErrors) =>
               /\ out[i].content = decodeLiteral(LiteralOf(RestOf(out[i].lno), {"=", ";"})).content
               /\ out[i].error = "" <=>
                     decodeLiteral(LiteralOf(RestOf(out[i].lno), {"=", ";"})).error = ""
               /\ (NextReal(out, i) # 0 /\ HoldsScalar(ValueTextOf(out[i].lno))) =>
                     /\ out[NextReal(out, i)].kind = "Scalar"
                     /\ out[NextReal(out, i)].lno = out[i].lno
                     /\ out[NextReal(out, i)].content =
                           decodeLiteral(LiteralOf(ValueTextOf(out[i].lno), {";"})).content
               /\ (NextReal(out, i) # 0 /\ ~HoldsScalar(ValueTextOf(out[i].lno))) =>
                     out[NextReal(out, i)].kind # "Scalar"

----------------------------------------------------------------------------
(* tokens(input) and parse(input) on the same document *)

MaxBothLines == 2

BothPool ==
    { <<>>,
      <<"a", " ", "=", " ", "\"", "\"", "\"">>,
      <<" ", " ", "x", " ">>,
      <<"a", " ", "=", " ", "\"", "\"">>,
      <<"a", " ", "=">>,
      <<"a", " ", "=", " ", ";", "c">>,
      <<";", "c">>,
      <<" ", ";", "c">>,
      <<" ", " ">>,
      <<"a">>,
      <<"a", " ", "=", " ", "b">>,
      <<"=", " ", "b">>,
      <<" ", "a">>,
      <<"a", " ", "=", " ", "\"", "\\", "{", "-", "1", "}", "\"">>,
      <<"a", " ", " ", "b">>,
      <<";", LS>> }

\* the empty string and the documents of the pool's lines
InitBoth ==
    /\ input \in {<<>>} \cup DocsOf(BothPool, MaxBothLines)
    /\ TokensStart
    /\ ParseStart
    /\ UtilsIdle
    /\ OneGenerator

NextBoth == Next \/ NextParse

SpecBoth == InitBoth /\ [][NextBoth]_vars

----------------------------------------------------------------------------
(* Claims on parse(): duplicate keys, empty documents *)

\* the key tokens of the document's top section
TopKeys == {r \in 1..Len(tout) : tout[r].kind = "key" /\ Level(r) = 0}

\* the key at r occurs earlier in the top section and not later
LastOfDuplicates(r) ==
    /\ \E q \in TopKeys : q < r /\ tout[q].content = tout[r].content
    /\ \A q \in TopKeys : q > r => tout[q].content # tout[r].content

\* every line of the document is blank or a comment
QuietDoc ==
    \A l \in 1..Len(InputLines) :
        Blank(InputLines[l]) \/ Head(RestOf(l)) = ";"

\* C17: when parse returns and a key occurs more than once in the top section,
\* the Map returned has an entry for that key, and the entry is the value of
\* the key's last occurrence.
C17_LastDuplicateWins ==
    (ppc = "returned" /\ reviver = "identity") =>
        \A r \in TopKeys :
            LastOfDuplicates(r) =>
                /\ ret.t = "object"
                /\ tout[r].content \in DOMAIN ret.own
                /\ tout[r + 1].kind = "scalar" =>
                      ret.own[tout[r].content] = Str(tout[r + 1].content)
                /\ tout[r + 1].kind = "null" => ret.own[tout[r].content] = Null

\* C18: for a document of blank lines and comments only, parse returns an
\* empty Map and tokens() yields no MapKey, ListItem, Indent, Outdent or
\* NoValue; for the empty string tokens() yields nothing.
C18_QuietDocument ==
    QuietDoc =>
        /\ ppc # "thrown"
        /\ (ppc = "returned" /\ reviver = "identity") => ret = EmptyObject
        /\ pc # "thrown"
        /\ \A i \in 1..Len(out) :
              out[i].kind \notin {"MapKey", "ListItem", "Indent", "Outdent", "NoValue"}
        /\ input = <<>> => out = <<>>

----------------------------------------------------------------------------
(* Claims on lines() *)

\* where the line terminators of the input start: a \r, or a \n that does not
\* follow a \r
TermStarts ==
    {i \in 1..Len(input) :
        /\ input[i] \in {"\r", "\n"}
        /\ ~(input[i] = "\n" /\ i > 1 /\ input[i - 1] = "\r")}

\* the length of the terminator that starts at i
TermLen(i) == IF input[i] = "\r" /\ i < Len(input) /\ input[i + 1] = "\n" THEN 2 ELSE 1

\* the input is empty or does not end with a terminator
OpenEnded == input = <<>> \/ Last(input) \notin {"\r", "\n"}

\* the text between the terminators k - 1 and k
Between(k) ==
    SubSeq(input,
           IF k = 1 THEN 1 ELSE Nth(TermStarts, k - 1) + TermLen(Nth(TermStarts, k - 1)),
           IF k <= Cardinality(TermStarts) THEN Nth(TermStarts, k) - 1 ELSE Len(input))

\* C19: lines(input) yields one pair for each terminator (\r\n, \r or \n, a
\* \r\n counting once) and one more exactly when the input is empty or does not
\* end with a terminator; the pairs are numbered 1, 2, 3, ... and each holds
\* the characters between two terminators as they are.
C19_LinesSplit ==
    ufn = "lines" =>
        /\ Len(ures) = Cardinality(TermStarts) + (IF OpenEnded THEN 1 ELSE 0)
        /\ \A k \in 1..Len(ures) : ures[k] = <<k, Between(k)>>

\* a text with a \r\n, an empty line and white space kept, ended by a terminator
C19_Witness ==
    /\ ufn = "lines"
    /\ input = <<" ", "\r", "\n", "\r">>
    /\ ures = << <<1, <<" ">> >>, <<2, <<>> >> >>

----------------------------------------------------------------------------
(* Claims on the validator: a key or item of the wrong kind *)

\* the validator takes a token of kind k from tokenize() while the section it
\* is in has the kind sec
Conflict(k, sec) ==
    /\ pc \in {"lex", "end"}
    /\ queue # <<>>
    /\ Head(queue).kind = k
    /\ Top(states).kind = sec
    /\ queue' = Tail(queue)

\* the step yields token t and nothing else, and tokens() goes on
YieldsLast(t) ==
    /\ out' = Append(out, t)
    /\ pc' = pc
    /\ raised' = raised

\* C20 as stated: on a ListItem in a Map section or a MapKey in a List section
\* the validator yields the incoming token, kind and content kept, tagged with
\* `unexpected list item` or `unexpected map key`.
C20_EmitsIncomingToken ==
    [][/\ Conflict("ListItem", "MapKey") =>
             YieldsLast([Head(queue) EXCEPT !.error = "unexpected list item"])
       /\ Conflict("MapKey", "ListItem") =>
             YieldsLast([Head(queue) EXCEPT !.error = "unexpected map key"])]_vars

\* C20: on a ListItem in a Map section the validator yields, in place of the
\* incoming token, a MapKey with empty content tagged `unexpected list item`;
\* on a MapKey in a List section a ListItem with empty content tagged
\* `unexpected map key`; the token carries the incoming token's line, and the
\* validator goes on with the tokens that follow.
C20_EmitsSectionKind ==
    [][/\ Conflict("ListItem", "MapKey") =>
             YieldsLast(Token(Head(queue).lno, "MapKey", <<>>, "unexpected list item"))
       /\ Conflict("MapKey", "ListItem") =>
             YieldsLast(Token(Head(queue).lno, "ListItem", <<>>, "unexpected map key"))]_vars

\* a map line with the key `a` in a list section: the stream holds a ListItem
\* with empty content and the error on that line, and tokens after it
C20_Witness ==
    /\ pc = "done"
    /\ \E i \in 1..(Len(out) - 1) :
          /\ out[i].kind = "ListItem"
          /\ out[i].error = "unexpected map key"
          /\ out[i].content = <<>>
          /\ MapLine(out[i].lno)
          /\ LiteralOf(RestOf(out[i].lno), {"=", ";"}) = <<"a">>
          /\ out[i + 1].kind = "Scalar"
          /\ out[i + 1].lno = out[i].lno

----------------------------------------------------------------------------
(* Claims on the validator: indents, missing values, the end of the stream *)

\* the validator comes to an Indent of tokenize() while no key or item of the
\* section awaits its value
StrayIndent ==
    /\ pc \in {"lex", "end"}
    /\ queue # <<>>
    /\ Head(queue).kind = "Indent"
    /\ ~Top(states).hasKey
    /\ yieldAt # "indentError"
    /\ out' # out

\* the step yields an `unexpected indent` token of kind k on the Indent's line
\* and keeps the Indent for the next pull
IndentReported(k) ==
    /\ out' = Append(out, Token(Head(queue).lno, k, <<>>, "unexpected indent"))
    /\ queue' = queue
    /\ yieldAt' = "indentError"
    /\ pc' = pc

\* tokens() is pulled after it yielded the `unexpected indent` token
AfterStrayIndent ==
    /\ yieldAt = "indentError"
    /\ out' # out

\* the step pushes a fresh frame and yields the Indent
IndentPushed ==
    /\ queue # <<>>
    /\ out' = Append(out, Head(queue))
    /\ Head(queue).kind = "Indent"
    /\ states' = Append(states, Frame)
    /\ queue' = Tail(queue)
    /\ pc' = pc

\* the `unexpected indent` token at i is followed by the Indent it reports,
\* and the section that Indent opens is closed later in the stream
NestedAndClosed(i) ==
    /\ i < Len(out)
    /\ out[i + 1].kind = "Indent"
    /\ \E k \in (i + 2)..Len(out) :
          out[k].kind = "Outdent" /\ DepthAfter(out, k) = DepthAfter(out, i)

\* C21: a stray Indent makes the validator yield a MapKey-kind token with the
\* error `unexpected indent`; pulled again it pushes a fresh frame and yields
\* the Indent; in the complete stream the nested section is closed by a
\* matching Outdent.
C21_IndentReportedAsMapKey ==
    /\ [][/\ StrayIndent => IndentReported("MapKey")
          /\ AfterStrayIndent => IndentPushed]_vars
    /\ [](Terminated =>
            \A i \in 1..Len(out) :
                out[i].error = "unexpected indent" => NestedAndClosed(i))

\* token i is a key or item that got no value: the first token after it that
\* is no Comment is none of Scalar, MultilineHint and Indent
Unvalued(i) ==
    /\ out[i].kind \in KeyKinds
    /\ NextReal(out, i) # 0 =>
          out[NextReal(out, i)].kind \notin {"Scalar", "MultilineHint", "Indent"}

\* C22: in the stream of tokens(), a key or item that got no value before the
\* next key, the closing Outdent or the end of the stream is followed by a
\* NoValue (once the stream is complete, and before any other token that is
\* no Comment); the last token before a NoValue that is no Comment is a
\* ListItem or MapKey, so there is one NoValue per such key; and a NoValue is
\* followed by a key, an Outdent or the end of the stream.
C22_NoValueIffUnvalued ==
    /\ \A i \in 1..Len(out) :
          Unvalued(i) =>
              /\ NextReal(out, i) # 0 => out[NextReal(out, i)].kind = "NoValue"
              /\ Terminated => NextReal(out, i) # 0
    /\ \A j \in 1..Len(out) :
          out[j].kind = "NoValue" =>
              /\ PrevReal(out, j) # 0
              /\ out[PrevReal(out, j)].kind \in KeyKinds
              /\ NextReal(out, j) # 0 =>
                    out[NextReal(out, j)].kind \in KeyKinds \cup {"Outdent"}

\* the nested sections open when the input ends: the indents on the raw
\* lexer's stack above the root
OpenSections == Len(lex.stack) - 1

\* the last token at or before n that is neither a Comment nor a NoValue, 0 if none
RECURSIVE LastStructural(_)
LastStructural(n) ==
    IF n = 0 THEN 0
    ELSE IF out[n].kind \notin {"Comment", "NoValue"} THEN n
    ELSE LastStructural(n - 1)

\* C23: when the stream has ended with k sections open, its last k tokens are
\* Outdents and the token before them is no Outdent; that token is a NoValue exactly
\* when the last key or item before it has no value, and no NoValue stands
\* between the closing Outdents.
C23_ClosingOutdents ==
    Terminated =>
        /\ Len(out) >= OpenSections
        /\ \A n \in (Len(out) - OpenSections + 1)..Len(out) : out[n].kind = "Outdent"
        /\ Len(out) > OpenSections =>
              /\ out[Len(out) - OpenSections].kind # "Outdent"
              /\ out[Len(out) - OpenSections].kind = "NoValue" <=>
                    (/\ LastStructural(Len(out) - OpenSections) # 0
                     /\ out[LastStructural(Len(out) - OpenSections)].kind \in KeyKinds)

----------------------------------------------------------------------------
(* Claims on the raw lexer: the indent stack *)

\* the line tokenize() is at after the step, and its leading white space
LineAt == InputLines[lno']

LineIndent == IndentOf(LineAt)

\* the token tokenize() yields in the step
Raw == Head(queue')

\* the line holds a key or an item: it is not blank and no comment
EntryLine(line) == ~Blank(line) /\ line[LeadWs(line) + 1] # ";"

\* tokenize() is resumed inside a multiline block
BlockOpen == lex.multiline /\ lex.at \notin {"missing", "blockEnd"}

\* the lines tokenize() passes in the step without a token for them
PassedOver ==
    IF pc' = "end" \/ lex'.at = "lastBlock" THEN (lno + 1)..lno' ELSE (lno + 1)..(lno' - 1)

\* C24: for a line that holds a key or an item, outside a multiline block, the
\* raw lexer yields one Outdent for each stack entry it pops, and pops only
\* while the line's leading white space does not start with the top of the
\* stack; it then yields one Indent, pushing that white space, exactly when the
\* white space differs from the new top, so that the line's key or item is
\* yielded with the line's white space on top of the stack; no other token
\* changes the stack; and outside a multiline block it passes no line without
\* a token but a blank one.
C24_OutdentsThenIndent ==
    [][/\ (LexLine \/ LexEnd) =>
             \A m \in PassedOver : Blank(InputLines[m]) \/ BlockOpen
       /\ LexLine =>
             /\ Raw.kind = "Outdent" =>
                   /\ Raw = Token(lno', "Outdent", <<>>, "")
                   /\ EntryLine(LineAt)
                   /\ ~StartsWith(LineIndent, Top(lex.stack))
                   /\ lex'.stack = Pop(lex.stack)
             /\ Raw.kind = "Indent" =>
                   /\ Raw = Token(lno', "Indent", LineIndent, "")
                   /\ EntryLine(LineAt)
                   /\ Extends(LineIndent, Top(lex.stack))
                   /\ lex'.stack = Append(lex.stack, LineIndent)
             /\ Raw.kind \notin {"Outdent", "Indent"} => lex'.stack = lex.stack
             /\ Raw.kind \in KeyKinds =>
                   /\ Raw.lno = lno'
                   /\ EntryLine(LineAt)
                   /\ Top(lex'.stack) = LineIndent]_vars

\* the line is a comment: its first character after the white space is `;`
CommentLine(line) == ~Blank(line) /\ line[LeadWs(line) + 1] = ";"

\* C25: the raw lexer changes the indent stack only as it yields an Indent or
\* an Outdent, and it yields these for no blank line and no comment line; a
\* blank line yields no token (a MultilineScalar may carry the number of a
\* blank line of its block); a comment line yields its Comment, once, and
\* nothing else.
C25_BlankAndCommentLines ==
    [][/\ LexLine =>
            /\ Raw.kind # "MultilineScalar" =>
                  /\ Raw.lno = lno'
                  /\ ~Blank(LineAt)
            /\ (Raw.kind # "MultilineScalar" /\ CommentLine(LineAt)) =>
                  /\ Raw.kind = "Comment" /\ Raw.lno = lno' /\ Raw.error = ""
                  /\ lex'.stack = lex.stack
                  /\ lno' > lno \/ (queue = <<>> /\ out # <<>>
                                     /\ out[Len(out)].kind = "MultilineScalar")
            /\ Raw.kind \in {"Indent", "Outdent"} => EntryLine(LineAt)
            /\ lex'.stack # lex.stack => Raw.kind \in {"Indent", "Outdent"}
       /\ (LexEnd \/ Throw) => lex'.stack = lex.stack]_vars

\* a comment at the left margin read while a nested section is open: the
\* stack keeps the section's indent, and the only Outdent of the stream is the
\* one that closes the section after the Comment
C25_Witness ==
    /\ input = <<" ", "a", "\n", ";", "c">>
    /\ pc = "done"
    /\ lex.stack = << <<>>, <<" ">> >>
    /\ \E i \in 1..(Len(out) - 1) :
          /\ out[i] = Token(2, "Comment", <<"c">>, "")
          /\ \A k \in 1..i : out[k].kind # "Outdent"
          /\ out[Len(out)].kind = "Outdent"

(***************************************************************************)
(* Claims on the validator: the frames                                     *)
(***************************************************************************)

\* the validator takes a Comment or a MultilineHint from the raw stream
TakesPassThrough ==
    /\ queue # <<>>
    /\ Head(queue).kind \in {"Comment", "MultilineHint"}
    /\ queue' = Tail(queue)

\* C26: a Comment or MultilineHint token is yielded as it came, and nothing
\* else is yielded for it; the frame stack, with every frame's section kind
\* and pending-key flag, is the same after the token as before it.
C26_PassThrough ==
    [][TakesPassThrough =>
          /\ out' = Append(out, Head(queue))
          /\ states' = states]_vars

\* a Comment has just been yielded inside a nested section whose last key is
\* still waiting for its value
C26_Witness ==
    /\ queue = <<>> /\ out # <<>>
    /\ out[Len(out)] = Token(3, "Comment", <<"c">>, "")
    /\ Len(states) = 2
    /\ Top(states) = [kind |-> "MapKey", hasKey |-> TRUE]
    /\ states[1] = [kind |-> "MapKey", hasKey |-> FALSE]

\* the validator takes a ListItem or a MapKey from the raw stream
TakesKey ==
    /\ queue # <<>>
    /\ Head(queue).kind \in KeyKinds
    /\ queue' = Tail(queue)

\* the frames that exist before and after a step (a step pushes one frame,
\* pops one frame, or leaves the stack as long as it was)
Surviving == 1..(IF Len(states') < Len(states) THEN Len(states') ELSE Len(states))

\* C27: a frame starts with its kind unset ("Comment"); the first ListItem or
\* MapKey processed in the frame sets the kind to that token's kind, nothing
\* else sets it, and once set it stays for as long as the frame is on the
\* stack, whatever is opened and closed above it.
C27_SectionKindIsFixed ==
    /\ [][/\ Len(states') > Len(states) =>
                /\ Len(states') = Len(states) + 1
                /\ Top(states') = [kind |-> "Comment", hasKey |-> FALSE]
          /\ \A i \in Surviving :
                /\ states[i].kind # "Comment" => states'[i].kind = states[i].kind
                /\ (states[i].kind = "Comment" /\ states'[i].kind # "Comment") =>
                      /\ i = Len(states)
                      /\ TakesKey
                      /\ states'[i].kind = Head(queue).kind
          /\ (TakesKey /\ Top(states).kind = "Comment") =>
                Top(states').kind = Head(queue).kind]_vars
    /\ [](\A i \in 1..Len(states) : states[i].kind \in KeyKinds \cup {"Comment"})

\* a list nested under a map key has been closed, and a further key was then
\* taken in the outer section, which is still a map
C27_Witness ==
    /\ input = <<"a", "\n", " ", "=", "\n", "a">>
    /\ queue = <<>>
    /\ states = << [kind |-> "MapKey", hasKey |-> TRUE] >>
    /\ Len(out) = 6
    /\ out[3] = Token(2, "ListItem", <<>>, "")
    /\ out[5].kind = "Outdent"
    /\ out[6] = Token(3, "MapKey", <<"a">>, "")

(***************************************************************************)
(* Claims on the raw lexer: the first line of a multiline value            *)
(***************************************************************************)

\* C28: the blank lines between a multiline marker and the first body line
\* contribute nothing: a MultilineScalar that carries a value starts on a
\* line that is not blank (the line that established the prefix), and its
\* content does not begin with a line break.
C28_BlankLinesBeforeBodySkipped ==
    \A i \in 1..Len(out) :
        (out[i].kind = "MultilineScalar" /\ out[i].error = "") =>
            /\ ~Blank(InputLines[out[i].lno])
            /\ out[i].content = <<>> \/ Head(out[i].content) # "\n"

(***************************************************************************)
(* Claims on the raw lexer: a value followed by a comment                  *)
(***************************************************************************)

\* the text of the value of line l: what follows the `=` of a list item, or
\* the first `=` after a map key, white space before it removed
ValueOn(l) ==
    IF Blank(InputLines[l]) THEN <<>>
    ELSE IF Head(RestOf(l)) = "=" THEN LeftTrimmed(Tail(RestOf(l)))
    ELSE ValueTextOf(l)

\* line l has the form `key = value ; comment` or `= value ; comment`
CommentedValue(l) ==
    /\ l \in 1..Len(InputLines)
    /\ HoldsScalar(ValueOn(l))
    /\ LiteralEnd(ValueOn(l), {";"}) < Len(ValueOn(l))

\* tokenize() is resumed: it yields, returns or throws
Resumed == LexLine \/ LexEnd \/ Throw

\* the Scalar of line l: the decoded literal that ends before the `;`
ScalarOn(l) ==
    LET dec == decodeLiteral(LiteralOf(ValueOn(l), {";"}))
    IN  Token(l, "Scalar", dec.content, dec.error)

\* the Comment of line l: the text after the `;` that ends the literal
CommentOn(l) ==
    Token(l, "Comment", From(ValueOn(l), LiteralEnd(ValueOn(l), {";"}) + 1), "")

\* C29: for a line `key = value ; comment` or `= value ; comment` the raw
\* lexer yields the MapKey or ListItem, resumed after it the Scalar, and
\* resumed after that the Comment, all three with the line's number; the
\* Comment carries the text after the first `;` outside the value's leading
\* quoted span as it stands, and the Scalar carries the decoded value without
\* the white space before that `;`.
C29_KeyScalarComment ==
    [][/\ (LexLine /\ Raw.kind \in KeyKinds /\ CommentedValue(lno')) =>
             /\ Raw.lno = lno'
             /\ Raw.kind = (IF Head(RestOf(lno')) = "=" THEN "ListItem" ELSE "MapKey")
       /\ (Resumed /\ lex.at \in {"item", "key"} /\ CommentedValue(lno)) =>
             /\ LexLine
             /\ lno' = lno
             /\ Raw = ScalarOn(lno)
       /\ (Resumed /\ lex.at = "scalar" /\ CommentedValue(lno)) =>
             /\ LexLine
             /\ lno' = lno
             /\ Raw = CommentOn(lno)]_vars

(***************************************************************************)
(* Two tokens() generators pulled in turns                                 *)
(*                                                                         *)
(* A first generator runs on its own to its end.  Then tokens() is called  *)
(* twice more, once on the same input and once on any document, and the    *)
(* consumer pulls the two generators in any order.  The generator being    *)
(* pulled has its locals in the variables of the tolerant pipeline; the    *)
(* locals of the suspended one are kept in peer.                           *)
(***************************************************************************)

TwoDocs ==
    { <<>>,
      JoinLines(<< <<"a">>, <<" ", "=">>, <<"a">> >>),
      JoinLines(<< <<"=", " ", "b">>, <<"a">> >>),
      JoinLines(<< <<"a", "=", "\"", "\"", "\"", "h">>, <<" ", "x">>, <<";", "c">> >>),
      JoinLines(<< <<" ", "a">>, <<"b", "=", "\"", "\\", "{", "-", "1", "}", "\"">> >>) }

InitTwo == InitOn(TwoDocs)

\* the first generator has ended; tokens(input) and tokens(d) are called
SecondCall ==
    /\ pc \in {"done", "thrown"}
    /\ solo.pc = "idle"
    /\ solo' = [input |-> input, pc |-> pc, out |-> out]
    /\ peer' = [input |-> input, pc |-> "lex", lno |-> 0, lex |-> LexInit, queue |-> <<>>,
                raised |-> FALSE, states |-> <<Frame>>, lastLine |-> 0, out |-> <<>>,
                yieldAt |-> "start"]
    /\ input' \in TwoDocs
    /\ pc' = "lex"
    /\ lno' = 0
    /\ lex' = LexInit
    /\ queue' = <<>>
    /\ raised' = FALSE
    /\ states' = <<Frame>>
    /\ lastLine' = 0
    /\ out' = <<>>
    /\ yieldAt' = "start"
    /\ UNCHANGED <<pvars, uvars>>

\* tokens() is suspended at a yield, or has not started, or has ended: the
\* consumer has the control
Suspended == yieldAt \in Pulls => pc = "lex" /\ queue = <<>>

\* Switch with the line counter in a place both generators share
Switch_SharedLineCounter ==
    /\ peer.pc # "idle"
    /\ Suspended
    /\ peer' = [input |-> input, pc |-> pc, lno |-> lno, lex |-> lex, queue |-> queue,
                raised |-> raised, states |-> states, lastLine |-> lastLine, out |-> out,
                yieldAt |-> yieldAt]
    /\ input' = peer.input
    /\ pc' = peer.pc
    /\ lno' = lno
    /\ lex' = peer.lex
    /\ queue' = peer.queue
    /\ raised' = peer.raised
    /\ states' = peer.states
    /\ lastLine' = peer.lastLine
    /\ out' = peer.out
    /\ yieldAt' = peer.yieldAt
    /\ UNCHANGED <<solo, pvars, uvars>>

\* the consumer turns to the other generator: each generator keeps its own
\* input, line position, lexer locals, frames, lastLine and tokens
Switch ==
    /\ peer.pc # "idle"
    /\ Suspended
    /\ peer' = [input |-> input, pc |-> pc, lno |-> lno, lex |-> lex, queue |-> queue,
                raised |-> raised, states |-> states, lastLine |-> lastLine, out |-> out,
                yieldAt |-> yieldAt]
    /\ input' = peer.input
    /\ pc' = peer.pc
    /\ lno' = peer.lno
    /\ lex' = peer.lex
    /\ queue' = peer.queue
    /\ raised' = peer.raised
    /\ states' = peer.states
    /\ lastLine' = peer.lastLine
    /\ out' = peer.out
    /\ yieldAt' = peer.yieldAt
    /\ UNCHANGED <<solo, pvars, uvars>>

NextTwo ==
    \/ Next
    \/ SecondCall
    \/ Switch

SpecTwo == InitTwo /\ [][NextTwo]_vars

\* toks is what a generator on the input of the first generator has yielded
\* so far when the first generator yielded ref on its own and ended as refEnd
AsAlone(toks, end, ref, refEnd) ==
    /\ Len(toks) <= Len(ref)
    /\ toks = SubSeq(ref, 1, Len(toks))
    /\ end \in {"done", "thrown"} => (toks = ref /\ end = refEnd)

\* C30: two generators made by separate tokens() calls, pulled in any order,
\* each yield what a generator on the same input yields on its own: at every
\* moment a prefix of those tokens, and at its end all of them, ending the
\* same way.
C30_GeneratorsIndependent ==
    solo.pc # "idle" =>
        /\ input = solo.input => AsAlone(out, pc, solo.out, solo.pc)
        /\ peer.input = solo.input => AsAlone(peer.out, peer.pc, solo.out, solo.pc)

\* both generators have been pulled and neither has ended: one is inside the
\* nested section of its document, the other inside a multiline value of a
\* different document
C30_Witness ==
    /\ solo.pc = "done"
    /\ input = solo.input
    /\ input # peer.input
    /\ pc = "lex" /\ peer.pc = "lex"
    /\ Len(states) = 2 /\ out # <<>>
    /\ peer.lex.multiline /\ peer.lex.multilinePrefix # <<>> /\ peer.out # <<>>

(***************************************************************************)
(* The tolerant pipeline pulled to its end                                 *)
(*                                                                         *)
(* The consumer keeps pulling: a step that is possible is eventually       *)
(* taken.                                                                  *)
(***************************************************************************)

InitLive ==
    InitOn(TwoDocs \cup DocsOf(BothPool, MaxBothLines)
           \cup {JoinLines(<< <<"a">>,
                              <<" ", "b">>,
                              <<" ", " ", "c", " ", "=", " ",
                                "\"", "\\", "t", "\\", "{", "4", "1", "}", "x", "\"">>,
                              <<"d">> >>)})

\* the steps of the validator and of the final flush
Consume ==
    \/ OnIndent
    \/ OnOutdent
    \/ OnKey
    \/ OnValue
    \/ OnPassThrough
    \/ FlushFrame

\* tokens() asks tokenize() for its next token: Resumed is enabled (tokenize()
\* yields, which fills queue, or returns or throws, which changes pc)
CanRead == pc = "lex" /\ queue = <<>> /\ yieldAt \in Pulls

\* weak fairness of Consume and of Resumed, the latter written out with
\* CanRead for ENABLED <<Resumed>>_vars
SpecLive ==
    /\ InitLive
    /\ [][Next]_vars
    /\ WF_vars(Consume)
    /\ ([]<>(~CanRead) \/ []<><<Resumed>>_vars)

\* the stream has ended: tokens() returned, or an exception left it
Ended == pc \in {"done", "thrown"}

\* the yields of tokenize() in the order they come within one line, from the
\* last to the first
YieldRank(at) ==
    CASE at \in {"start", "missing", "blockEnd"} -> 6
      [] at = "outdent" -> 5
      [] at = "indent" -> 4
      [] at \in {"item", "key"} -> 3
      [] at \in {"hint", "scalar"} -> 2
      [] at = "lastBlock" -> 0
      [] OTHER -> 1

\* what is left to do in tokenize(): the lines not read, the yields of the
\* line not reached, the stack entries the outdent loop can still pop
RawVariant ==
    (Len(InputLines) + 14) * (Len(InputLines) - lno) + 2 * YieldRank(lex.at) + Len(lex.stack)

\* what is left to do in the final flush: three steps at most for each frame
FlushVariant ==
    CASE yieldAt = "flushOutdent" -> 3 * (Len(states) - 1) + 2
      [] yieldAt = "flushNoValue" -> 3 * Len(states) + 1
      [] OTHER -> 3 * Len(states) + 2

\* what is left to do: in the line loop the rest of tokenize(), two steps of
\* the validator for a raw token taken and one if it has yielded for it, and
\* the whole final flush; then the rest of the final flush
Variant ==
    CASE pc = "lex" ->
            3 * RawVariant
            + (IF queue = <<>> THEN 0 ELSE IF yieldAt \in Pulls THEN 2 ELSE 1)
            + 3 * (Len(InputLines) + 2) + 3
      [] pc = "end" -> FlushVariant
      [] OTHER -> 0

\* tokens a document of n lines yields at most: an Outdent and a NoValue for
\* each Indent, seven more for each line, and two at the end
TokenBound(n) == 9 * n + 2

\* C31: pulled again and again, tokens() reaches the end of its stream; every
\* step of the line loop, of the validator and of the final flush lessens
\* what is left to do; and the tokens yielded are at most TokenBound(n) for a
\* document of n lines.
C31_StreamEnds ==
    /\ <>[]Ended
    /\ [][Variant' < Variant]_vars
    /\ [](Variant >= 0 /\ Len(out) <= TokenBound(Len(InputLines)))

\* the stream of a two-line document has ended: the final flush reported the
\* key left without value and closed the nested section
C31_Witness ==
    /\ pc = "done"
    /\ states = <<>>
    /\ Len(InputLines) = 2
    /\ Len(out) = 5
    /\ out[4].kind = "NoValue"
    /\ out[5].kind = "Outdent"
    /\ Variant = 0

(***************************************************************************)
(* Claims on the tokens of the tolerant stream                             *)
(***************************************************************************)

\* C32: an Indent carries the leading white space (spaces and tabs) of the
\* line it is yielded for, which is not empty; Outdent, ListItem and NoValue
\* tokens carry no content.
C32_StructuralContents ==
    \A i \in 1..Len(out) :
        /\ out[i].kind = "Indent" =>
              /\ out[i].content = IndentOf(InputLines[out[i].lno])
              /\ out[i].content # <<>>
              /\ \A c \in 1..Len(out[i].content) : out[i].content[c] \in {" ", "\t"}
        /\ out[i].kind \in {"Outdent", "ListItem", "NoValue"} => out[i].content = <<>>

\* a stream that holds an Indent of one tab, a list item with a value, a
\* NoValue and an Outdent
C32_Witness ==
    /\ pc = "done"
    /\ \E i, j, k, n \in 1..Len(out) :
          /\ out[i] = Token(1, "Indent", <<"\t">>, "")
          /\ out[j].kind = "ListItem" /\ out[j].error = ""
          /\ out[j + 1].kind = "Scalar"
          /\ out[k].kind = "NoValue"
          /\ out[n].kind = "Outdent"

(***************************************************************************)
(* Claims on what parse throws                                             *)
(***************************************************************************)

\* the descriptions of the CONL diagnostics
Diagnostics ==
    {"unclosed quotes", "characters after quotes", "invalid escape code",
     "unexpected indent", "unexpected map key", "unexpected list item",
     "missing multiline value"}

\* C33: whatever parse throws is an Error whose message holds one of the CONL
\* diagnostics: the match of SPLIT_LINE never fails and String.fromCodePoint
\* is never handed an invalid code point.
C33_ThrowsOnlyDiagnostics ==
    failure # NoError =>
        /\ failure.name = "Error"
        /\ failure.text \in Diagnostics

\* the line holds a multiline marker
HasMarker(line) ==
    \E i \in 1..(Len(line) - 2) : SubSeq(line, i, i + 2) = <<Quote, Quote, Quote>>

\* C34: the number in the message of an Error thrown by parse is the 1-based
\* number of the line that holds the offending construct, a line that is
\* neither blank nor a comment; for `missing multiline value` it is the line
\* of the marker, however many blank lines follow the marker.
C34_ErrorNamesLine ==
    failure.name = "Error" =>
        /\ failure.lno \in RealLines
        /\ failure.text = "missing multiline value" => HasMarker(InputLines[failure.lno])

(***************************************************************************)
(* Claims on the line numbers of the tolerant stream                       *)
(***************************************************************************)

\* C35: in the stream of tokens() no token carries a line number smaller than
\* that of a token yielded before it, the NoValue and Outdent tokens of the
\* validator and the error-tagged tokens included.
C35_LineNumbersAscend ==
    \A i \in 1..(Len(out) - 1) : out[i].lno <= out[i + 1].lno

(***************************************************************************)
(* Claims on both pipelines: the empty value and the absent value          *)
(***************************************************************************)

\* the document holds one map entry, not indented, and otherwise blank lines
\* and comments only
SoleEntry ==
    /\ Cardinality(RealLines) = 1
    /\ \A r \in RealLines : LeadWs(InputLines[r]) = 0 /\ MapLine(r)

\* the value of the sole entry is the empty quoted literal
EmptyQuoted ==
    \A r \in RealLines : LiteralOf(ValueTextOf(r), {";"}) = <<Quote, Quote>>

\* the sole entry has no value: nothing, or only a comment, after the key and
\* its `=`
Absent ==
    \A r \in RealLines : ValueTextOf(r) = <<>> \/ Head(ValueTextOf(r)) = ";"

NotComment(t) == t.kind # "Comment"

\* what tokens() yielded for the sole entry: its MapKey, then a token of kind
\* k with empty content
EntryThen(k) ==
    \A r \in RealLines :
        /\ Len(SelectSeq(out, NotComment)) = 2
        /\ SelectSeq(out, NotComment)[1].kind = "MapKey"
        /\ SelectSeq(out, NotComment)[1].lno = r
        /\ SelectSeq(out, NotComment)[2].kind = k
        /\ SelectSeq(out, NotComment)[2].content = <<>>
        /\ SelectSeq(out, NotComment)[2].error = ""
        /\ k = "Scalar" => SelectSeq(out, NotComment)[2].lno = r

\* what parse returned: an object of one property with the value v
OneProperty(v) ==
    /\ ret.t = "object"
    /\ Cardinality(DOMAIN ret.own) = 1
    /\ \A k \in DOMAIN ret.own : ret.own[k] = v

\* C36: `key = ""` is a value, the empty string: tokens() yields a Scalar
\* with empty content and parse gives the key the empty string; `key`,
\* `key =` and `key = ; comment` have no value: tokens() yields no Scalar but
\* a NoValue, and parse gives the key null.  Neither pipeline fails on them.
C36_EmptyIsNotAbsent ==
    (SoleEntry /\ (EmptyQuoted \/ Absent)) =>
        /\ pc # "thrown" /\ ppc # "thrown"
        /\ pc = "done" => EntryThen(IF EmptyQuoted THEN "Scalar" ELSE "NoValue")
        /\ (ppc = "returned" /\ reviver = "identity") =>
              OneProperty(IF EmptyQuoted THEN Str(<<>>) ELSE Null)

(***************************************************************************)
(* Claims on both pipelines: the two token streams                         *)
(***************************************************************************)

NotAnnotation(t) == t.kind \notin {"Comment", "MultilineHint"}

\* the kind of the throwing tokenizer that stands for a kind of tokens()
KindOf(k) ==
    CASE k = "MapKey" -> "key"
      [] k = "ListItem" -> "item"
      [] k \in {"Scalar", "MultilineScalar"} -> "scalar"
      [] k = "NoValue" -> "null"
      [] k = "Indent" -> "indent"
      [] k = "Outdent" -> "outdent"

\* the streams a and b (of tokens() without comments and hints, and of the
\* throwing tokenizer) have the same kinds in the same order, and the same
\* contents in their keys and scalars
SameStream(a, b) ==
    /\ Len(a) = Len(b)
    /\ \A i \in 1..Len(a) :
          /\ KindOf(a[i].kind) = b[i].kind
          /\ b[i].kind \in {"key", "scalar"} => a[i].content = b[i].content

\* C37: when the throwing tokenizer runs through a document without throwing,
\* tokens() runs through it too, none of its tokens has an error, and without
\* its Comment and MultilineHint tokens its stream is that of the throwing
\* tokenizer: same kinds, same key and scalar contents, same order.
C37_StreamsAgree ==
    (ppc = "returned" /\ pc \in {"done", "thrown"}) =>
        /\ pc = "done"
        /\ \A i \in 1..Len(out) : out[i].error = ""
        /\ SameStream(SelectSeq(out, NotAnnotation), tout)

(***************************************************************************)
(* Claims on the two stacks of the tolerant pipeline                       *)
(***************************************************************************)

\* the validator has consumed every raw token tokenize() has yielded
AllConsumed == pc \in {"lex", "end"} /\ queue = <<>> /\ yieldAt \in Pulls

\* C38: the indent stack of the raw lexer is never empty, its bottom entry is
\* the empty string, and each entry starts with the entry below it and is
\* longer; when the validator has consumed the raw tokens yielded so far it
\* has as many frames as the indent stack has entries.
C38_StacksInStep ==
    /\ Len(lex.stack) >= 1
    /\ lex.stack[1] = <<>>
    /\ \A i \in 1..(Len(lex.stack) - 1) : Extends(lex.stack[i + 1], lex.stack[i])
    /\ AllConsumed => Len(states) = Len(lex.stack)

\* a third level has been opened and its Indent consumed
C38_Witness ==
    /\ lex.stack = << <<>>, <<" ">>, <<" ", " ">> >>
    /\ Len(states) = 3
    /\ AllConsumed
    /\ pc = "lex"
    /\ out # <<>> /\ out[Len(out)] = Token(3, "Indent", <<" ", " ">>, "")

====
